---- MODULE Spec2Model ----
(***************************************************************************)
(* Pearl registry of the stasis bot: detection, attribution, promotion,    *)
(* reconciliation (src/src/pearlDetect.ts) and the trigger sequencer       *)
(* (src/src/triggerPearl.ts, pathing in src/unnamed/part_003).             *)
(*                                                                         *)
(* src/src/pearlDetect.ts holds two variants of installPearlDetection:     *)
(*   lines   1-412  the variant with the entity-id index, upsert and the   *)
(*                  1 s reconciliation interval      (specification Spec)  *)
(*   lines 413-712  the variant without index, with a 500 ms promotion     *)
(*                  interval                        (specification SpecV2) *)
(* SpecTrigger runs the trigger sequencer against the handlers of the      *)
(* first variant, over registries loaded from state.json.                  *)
(* SpecAttr and SpecAttrV2 exercise the attribution scorer of either       *)
(* variant: swings of the players and pearls appearing around them.        *)
(* SpecSettling starts the first variant over a record saved while its     *)
(* stability timer ran; SpecSave and SpecSaveFair follow the debounced     *)
(* save on its own clock; SpecOverlap adds trigger requests that overlap;  *)
(* SpecGeneral adds auto-eat and anti-AFK (src/src/general.ts); SpecDisk   *)
(* and SpecDiskInPlace add the state file under either saveState           *)
(* (src/unnamed/part_000, part_001) and the HTTP route (part_004).         *)
(* SpecFind places the pearl around two chambers for the block search;     *)
(* SpecTriggerFair is SpecTrigger with every awaited call settling;        *)
(* SpecReconnect adds one reconnect (destroyBot / createAndBindBot in      *)
(* part_004) to the first variant.                                         *)
(*                                                                         *)
(* Units: time in milliseconds, coordinates in hundredths of a block       *)
(* (a Vec3 is a record [x, y, z] of integers, 150 = 1.5 blocks).           *)
(* "undefined" is 0 for a timestamp or an entity id (Date.now() and        *)
(* entity ids are positive, and the code tests them by truthiness), and    *)
(* the empty sequence for an optional Vec3 (<<p>> when present).           *)
(***************************************************************************)
EXTENDS Integers, Sequences, FiniteSets, TLC

VARIABLES
    now,            \* Date.now()
    pearls,         \* state.pearls: record key -> PearlRecord (with the bolted-on tracking fields)
    order,          \* insertion order of the keys of state.pearls (Object.entries order)
    entityToKey,    \* the entity-id -> record-key index (variant 1)
    entities,       \* bot.entities restricted to what the handlers read: id -> [name, position]
    lastSwing,      \* lastSwingByEntityId: player entity id -> time of the last swing (0: none)
    rescoreTimers,  \* pending delayed re-attribution timers: set of [key, at]
    saveTimer,      \* due time of the pending debounced save (0: none)
    delayedScanAt,  \* due time of the one-shot delayed startup scan (0: fired)
    nextTickAt,     \* due time of the next interval callback
    trig,           \* the triggerPearl invocation in flight (pc = "idle": none)
    busy,           \* the trigger-in-progress flag of busy.js
    ctrl,           \* movement control state of the bot: "clean" or "latched"
    botPos,         \* bot.entity.position
    events,         \* number of world events delivered so far (bounded)
    general,        \* general.ts: the eating latch, the position of eatEnchantedGapple,
                    \*   and the control actions issued, each with the flag at that moment
    disk,           \* the state file and the process's temp file, whether the process
                    \*   is up, and what the callers of saveState reported
    prev,           \* what the installPearlDetection call of the destroyed bot instance
                    \*   left behind (live = FALSE: there was no reconnect): its index,
                    \*   the entity table of its bot, its interval and its timers
    hist            \* history of the world, for stating the claims:
                    \*   since[e]: when entity e last appeared, moved or disappeared
                    \*   snap[e]:  the first of the latest consecutive interval snapshots
                    \*             that did not hold e (0: the last snapshot held it, or
                    \*             a handler has been handed e since)
                    \*   reaped:   keys of the records that interval callbacks deleted
                    \*   noMove:   keys of the records whose entity has had no move
                    \*             event since the record was created
                    \*   whispers: the promotion whispers sent by the first variant, as
                    \*             [to, key, by] with by the handler ("move", "tick")

vars == <<now, pearls, order, entityToKey, entities, lastSwing, rescoreTimers,
          saveTimer, delayedScanAt, nextTickAt, trig, busy, ctrl, botPos,
          events, general, disk, prev, hist>>

----------------------------------------------------------------------------
(* Bounds of the model *)

MaxEvents == 2
MaxTicks == 6
MaxTriggers == 2

(* Program constants *)

MIN_AGE_MS == 2500
SETTLE_MS == 600
SPEED_EPS_C == 15
MOVE_EPS_C == 15
SWING_WINDOW_MS == 300
CANDIDATE_RADIUS == 14
RESCAN_MS == 1000
MISSING_GRACE_MS == 5000
RESCORE_DELAY_MS == 250
SAVE_DEBOUNCE_MS == 150
DELAYED_SCAN_MS == 1500
V2_INTERVAL_MS == 500
V2_SWING_WINDOW_MS == 2000
ACTION_RADIUS == 3

----------------------------------------------------------------------------
(* Small helpers *)

Vec(a, b, c) == [x |-> a, y |-> b, z |-> c]

Max(a, b) == IF a >= b THEN a ELSE b

Min(a, b) == IF a <= b THEN a ELSE b

RECURSIVE SeqWithout(_, _)
SeqWithout(s, drop) ==
    IF s = <<>> THEN <<>>
    ELSE IF Head(s) \in drop THEN SeqWithout(Tail(s), drop)
    ELSE <<Head(s)>> \o SeqWithout(Tail(s), drop)

\* squared length of a - b, in (1/100 block)^2
DistSqC(a, b) ==
    (a.x - b.x) * (a.x - b.x) + (a.y - b.y) * (a.y - b.y) + (a.z - b.z) * (a.z - b.z)

\* Math.floor of a coordinate, kept in hundredths of a block
FloorC(c) == (c \div 100) * 100

snapToBlock(p) == Vec(FloorC(p.x), FloorC(p.y), FloorC(p.z))

isEnderPearlEntity(ent) ==
    \/ ent.name \in {"ender_pearl", "enderpearl"}
    \/ ent.name \in {"pearl_item"}      \* the loose name.includes("pearl") fallback

nowPos(ent) == ent.position

----------------------------------------------------------------------------
(* The world the bot observes (inputs, drawn from small sets) *)

EntityIds == {1, 2}

PFly == Vec(1050, 6406, -350)       \* a mid-flight position
PRest == Vec(250, 6406, -350)       \* the resting position (fractional coordinates)
PJit == Vec(255, 6406, -350)        \* the resting position with 0.05 block of jitter

PosSet == {PFly, PRest, PJit}

\* where each pearl is seen: pearl 1 is thrown, flies and settles while the bot watches;
\* pearl 2 lies at rest from before the start and can only leave
PositionsOf(e) == IF e = 1 THEN PosSet ELSE {}

Pearl(p) == [name |-> "ender_pearl", position |-> p]

\* bot.players, in enumeration order; yaw and pitch in quarter turns (yaw = yawQ * pi/2)
PlayerNames == <<"alice", "bob">>

PlayerEntity(u) ==
    IF u = "alice"
    THEN [id |-> 11, position |-> Vec(-150, 6406, -350), yawQ |-> 3, pitchQ |-> 0]
    ELSE [id |-> 12, position |-> Vec(650, 6406, -350), yawQ |-> 1, pitchQ |-> 0]

PlayerEntityIds == {PlayerEntity(PlayerNames[i]).id : i \in 1..Len(PlayerNames)}

\* bot.blockAt: the action blocks of the world, by block coordinate (whole blocks);
\* a block name is its "_"-separated words
WorldBlocks ==
    (Vec(2, 64, -2) :> <<"oak", "button">>) @@
    (Vec(3, 64, -4) :> <<"lever">>) @@
    (Vec(4, 65, -4) :> <<"stone">>) @@
    \* a second chamber, out of reach of the first
    (Vec(40, 64, 0) :> <<"birch", "trapdoor">>) @@
    (Vec(42, 64, 0) :> <<"iron", "door">>) @@
    (Vec(41, 64, -1) :> <<"oak", "planks">>) @@
    (Vec(41, 66, 0) :> <<"oak", "fence", "gate">>) @@
    (Vec(44, 64, 3) :> <<"stone", "pressure", "plate">>) @@
    (Vec(38, 61, -3) :> <<"dirt">>)

blockAt(p) == IF p \in DOMAIN WorldBlocks THEN WorldBlocks[p] ELSE <<"air">>

BotHome == Vec(50, 6400, -350)

----------------------------------------------------------------------------
(* Attribution scorer: pearlDetect.ts, pickOwnerForPearl.  Scores are kept  *)
(* in thousandths.                                                         *)

SinQ(q) == <<0, 1, 0, -1>>[(q % 4) + 1]

CosQ(q) == <<1, 0, -1, 0>>[(q % 4) + 1]

lookDir(yawQ, pitchQ) ==
    Vec(-SinQ(yawQ) * CosQ(pitchQ), SinQ(pitchQ), -CosQ(yawQ) * CosQ(pitchQ))

dot(a, b) == a.x * b.x + a.y * b.y + a.z * b.z

vecTo(from, to) == Vec(to.x - from.x, to.y - from.y, to.z - from.z)

RECURSIVE SqrtSearch(_, _, _)
SqrtSearch(n, lo, hi) ==
    IF lo >= hi THEN lo
    ELSE LET mid == (lo + hi + 1) \div 2
         IN  IF mid * mid <= n THEN SqrtSearch(n, mid, hi) ELSE SqrtSearch(n, lo, mid - 1)

\* floor(sqrt(n)) for 0 <= n < 2^30
ISqrt(n) == SqrtSearch(n, 0, 32767)

clampMilli(n) == Max(0, Min(1000, n))

\* clamp01((dot(norm(dir), norm(v)) + 1) / 2) in thousandths; norm divides by (length || 1)
facingMilli(dir, v) ==
    LET m  == ISqrt(dot(v, v))
        mm == IF m = 0 THEN 1 ELSE m
        md == ISqrt(dot(dir, dir))
        dd == IF md = 0 THEN 1 ELSE md
    IN  clampMilli(((1000 * dot(dir, v)) \div (mm * dd) + 1000) \div 2)

\* a score that admits players at any distance
CandidateScoreW_AnyDistance(u, pearlPos, t, window) ==
    LET ent    == PlayerEntity(u)
        distSq == DistSqC(ent.position, pearlPos)
        age    == t - lastSwing[ent.id]
    IN  IF lastSwing[ent.id] = 0 THEN -1
        ELSE IF age > window THEN -1
        ELSE clampMilli(1000 - (1000 * age) \div window) * 4
             + (facingMilli(lookDir(ent.yawQ, ent.pitchQ), vecTo(ent.position, pearlPos)) * 3)
               \div 2
             + 10000000 \div (10000 + distSq)

\* score of one player, or -1 when the player is no candidate
CandidateScoreW(u, pearlPos, t, window) ==
    LET ent    == PlayerEntity(u)
        distSq == DistSqC(ent.position, pearlPos)
        age    == t - lastSwing[ent.id]
    IN  IF distSq > CANDIDATE_RADIUS * CANDIDATE_RADIUS * 10000 THEN -1
        ELSE IF lastSwing[ent.id] = 0 THEN -1
        ELSE IF age > window THEN -1
        ELSE LET swingRecency == clampMilli(1000 - (1000 * age) \div window)
                 facing       == facingMilli(lookDir(ent.yawQ, ent.pitchQ),
                                             vecTo(ent.position, pearlPos))
                 closeness    == 10000000 \div (10000 + distSq)
             IN  swingRecency * 4 + (facing * 3) \div 2 + closeness

\* a loop in which the last candidate wins, whatever its score
RECURSIVE PickLoop_LastWins(_, _, _, _, _, _)
PickLoop_LastWins(i, bestUser, bestScore, pearlPos, t, window) ==
    IF i > Len(PlayerNames) THEN bestUser
    ELSE LET u == PlayerNames[i]
             s == CandidateScoreW(u, pearlPos, t, window)
         IN  IF s >= 0
             THEN PickLoop_LastWins(i + 1, u, s, pearlPos, t, window)
             ELSE PickLoop_LastWins(i + 1, bestUser, bestScore, pearlPos, t, window)

RECURSIVE PickLoop(_, _, _, _, _, _)
PickLoop(i, bestUser, bestScore, pearlPos, t, window) ==
    IF i > Len(PlayerNames) THEN bestUser
    ELSE LET u == PlayerNames[i]
             s == CandidateScoreW(u, pearlPos, t, window)
         IN  IF s >= 0 /\ s > bestScore
             THEN PickLoop(i + 1, u, s, pearlPos, t, window)
             ELSE PickLoop(i + 1, bestUser, bestScore, pearlPos, t, window)

pickOwnerW(pearlPos, t, window) == PickLoop(1, "unknown", -1, pearlPos, t, window)

pickOwnerForPearl(pearlPos, t) == pickOwnerW(pearlPos, t, SWING_WINDOW_MS)

----------------------------------------------------------------------------
(* Registry operations of variant 1 (pearlDetect.ts lines 1-412).  They    *)
(* work on a store S = [pearls, order, idx, rescore, save]: the registry,  *)
(* its key order, the entity-id index, the pending re-score timers and the *)
(* save timer, so that one handler can chain several of them.              *)

Drop(f, ks) == [x \in DOMAIN f \ ks |-> f[x]]

Put(f, k, v) == [x \in DOMAIN f \cup {k} |-> IF x = k THEN v ELSE f[x]]

\* sent: the whispers that the handler running has sent, as [to, key]
Store == [pearls |-> pearls, order |-> order, idx |-> entityToKey,
          rescore |-> rescoreTimers, save |-> saveTimer, sent |-> <<>>]

\* scheduleSave without the guard of line 118: every call starts the 150 ms again
scheduleSave_Restarts(S, t) ==
    [S EXCEPT !.save = t + SAVE_DEBOUNCE_MS]

scheduleSave(S, t) ==
    IF S.save # 0 THEN S ELSE [S EXCEPT !.save = t + SAVE_DEBOUNCE_MS]

\* the record written by upsertPearlFromEntity / the spawn handler, tracking fields included
NewRecord(owner, p, t, eId) ==
    [owner |-> owner, pos |-> p, createdAt |-> t, lastSeenAt |-> t, lastMoveAt |-> t,
     lastPos |-> <<>>, entityId |-> eId, status |-> "airborne",
     lastRawAt |-> t, stableSince |-> 0, stablePos |-> <<>>, missingSince |-> 0]

\* a notification that goes out whoever the owner is
notifyPromoted_Always(S, owner, key) ==
    [S EXCEPT !.sent = Append(S.sent, [to |-> owner, key |-> key])]

\* notifyPromoted(owner), called for the record under key: a whisper to the owner,
\* none when the owner is not known
notifyPromoted(S, owner, key) ==
    IF owner = "" \/ owner = "unknown" THEN S
    ELSE [S EXCEPT !.sent = Append(S.sent, [to |-> owner, key |-> key])]

\* a guard that forgets the settle window
CanPromote_NoSettle(rec, t) ==
    /\ rec.status = "airborne"
    /\ t - rec.createdAt >= MIN_AGE_MS
    /\ rec.stableSince # 0

\* the guard of tryPromoteToStasis
CanPromote(rec, t) ==
    /\ rec.status = "airborne"
    /\ t - rec.createdAt >= MIN_AGE_MS
    /\ rec.stableSince # 0
    /\ t - rec.stableSince >= SETTLE_MS

\* the record after tryPromoteToStasis(state, key, t)
\* a promotion that snaps whatever raw position the record holds
Promoted_FromRecordPos(rec) ==
    [rec EXCEPT !.lastPos = <<rec.pos>>, !.pos = snapToBlock(rec.pos), !.status = "stasis"]

Promoted(rec) ==
    LET raw == IF rec.stablePos # <<>> THEN rec.stablePos[1] ELSE rec.pos
    IN  [rec EXCEPT !.lastPos = <<raw>>, !.pos = snapToBlock(raw), !.status = "stasis"]

tryPromoteToStasis(ps, key, t) ==
    IF key \notin DOMAIN ps THEN ps
    ELSE IF CanPromote(ps[key], t) THEN [ps EXCEPT ![key] = Promoted(ps[key])]
    ELSE ps

\* a refresh that also forgets who threw the pearl
Refreshed_OwnerReset(rec, ent, t) ==
    [rec EXCEPT !.lastSeenAt = t, !.owner = "unknown", !.missingSince = 0]

\* a refresh that writes the raw position into pos whatever the status
Refreshed_PosOverwritten(rec, ent, t) ==
    [rec EXCEPT !.lastSeenAt = t, !.pos = nowPos(ent), !.missingSince = 0]

\* what upsertPearlFromEntity and the interval do to a tracked record whose entity is loaded
Refreshed(rec, ent, t) ==
    LET raw == nowPos(ent)
    IN  IF rec.status = "stasis"
        THEN [rec EXCEPT !.lastSeenAt = t, !.lastPos = <<raw>>, !.missingSince = 0]
        ELSE [rec EXCEPT !.lastSeenAt = t, !.pos = raw, !.missingSince = 0]

\* `${eId}:${now}` for a spawn event, `pre:${eId}:${now}` for a scan
PearlKey(source, eId, t) == <<IF source = "spawn" THEN "" ELSE "pre", eId, t>>

\* an upsert that runs the scorer also for what the interval's rescan finds
upsertPearlFromEntity_ScoresRescans(S, eId, ent, source, t) ==
    IF ~isEnderPearlEntity(ent) THEN S
    ELSE IF eId \in DOMAIN S.idx
    THEN LET existingKey == S.idx[eId]
         IN  IF existingKey \notin DOMAIN S.pearls
             THEN [S EXCEPT !.idx = Drop(S.idx, {eId})]
             ELSE [S EXCEPT !.pearls[existingKey] = Refreshed(S.pearls[existingKey], ent, t)]
    ELSE LET p        == nowPos(ent)
             owner    == IF source = "startup" THEN "unknown" ELSE pickOwnerForPearl(p, t)
             pearlKey == PearlKey(source, eId, t)
             S1       == [S EXCEPT
                            !.pearls = Put(S.pearls, pearlKey, NewRecord(owner, p, t, eId)),
                            !.order  = IF pearlKey \in DOMAIN S.pearls THEN S.order
                                       ELSE Append(S.order, pearlKey),
                            !.idx    = Put(S.idx, eId, pearlKey)]
         IN  scheduleSave(S1, t)

upsertPearlFromEntity(S, eId, ent, source, t) ==
    IF ~isEnderPearlEntity(ent) THEN S
    ELSE IF eId \in DOMAIN S.idx
    THEN LET existingKey == S.idx[eId]
         IN  IF existingKey \notin DOMAIN S.pearls
             THEN [S EXCEPT !.idx = Drop(S.idx, {eId})]
             ELSE [S EXCEPT !.pearls[existingKey] = Refreshed(S.pearls[existingKey], ent, t)]
    ELSE LET p        == nowPos(ent)
             owner    == IF source = "spawn" THEN pickOwnerForPearl(p, t) ELSE "unknown"
             pearlKey == PearlKey(source, eId, t)
             S1       == [S EXCEPT
                            !.pearls = Put(S.pearls, pearlKey, NewRecord(owner, p, t, eId)),
                            !.order  = IF pearlKey \in DOMAIN S.pearls THEN S.order
                                       ELSE Append(S.order, pearlKey),
                            !.idx    = Put(S.idx, eId, pearlKey)]
             S2       == scheduleSave(S1, t)
         IN  IF source = "spawn" /\ owner = "unknown"
             THEN [S2 EXCEPT !.rescore = S2.rescore \cup
                                 {[key |-> pearlKey, at |-> t + RESCORE_DELAY_MS]}]
             ELSE S2

\* removePearlRecord without line 279: the index entry of the record is left behind
removePearlRecord_IndexKept(S, pearlKey, t) ==
    IF pearlKey \notin DOMAIN S.pearls THEN S
    ELSE scheduleSave([S EXCEPT !.pearls = Drop(S.pearls, {pearlKey}),
                                !.order  = SeqWithout(S.order, {pearlKey})], t)

removePearlRecord(S, pearlKey, t) ==
    IF pearlKey \notin DOMAIN S.pearls THEN S
    ELSE LET eId == S.pearls[pearlKey].entityId
             S1  == [S EXCEPT
                       !.idx    = IF eId # 0 THEN Drop(S.idx, {eId}) ELSE S.idx,
                       !.pearls = Drop(S.pearls, {pearlKey}),
                       !.order  = SeqWithout(S.order, {pearlKey})]
         IN  scheduleSave(S1, t)

\* scanLoadedPearls: upsert every loaded pearl entity, in the key order of bot.entities
RECURSIVE ScanFrom(_, _, _, _, _)
ScanFrom(S, ents, ids, source, t) ==
    IF ids = {} THEN S
    ELSE LET e == CHOOSE i \in ids : \A j \in ids : i <= j
         IN  ScanFrom(upsertPearlFromEntity(S, e, ents[e], source, t),
                      ents, ids \ {e}, source, t)

scanLoadedPearls(S, ents, pass, t) ==
    ScanFrom(S, ents, {e \in DOMAIN ents : isEnderPearlEntity(ents[e])},
             IF pass = "rescan" THEN "rescan" ELSE "startup", t)

\* rebuildIndex: the last record, in key order, that carries an entity id wins it
RECURSIVE IndexFrom(_, _, _)
IndexFrom(ps, keys, idx) ==
    IF keys = <<>> THEN idx
    ELSE LET k == Head(keys)
         IN  IndexFrom(ps, Tail(keys),
                       IF ps[k].entityId # 0 THEN Put(idx, ps[k].entityId, k) ELSE idx)

rebuildIndex(ps, keys) == IndexFrom(ps, keys, <<>>)

----------------------------------------------------------------------------
(* Handlers of variant 1 *)

\* d > eps, on squares (d and eps in hundredths of a block)
MovedBeyond(dSq, epsC) == dSq > epsC * epsC

\* d / dt > eps blocks per second, on squares: dSq * 10^6 > epsC^2 * dtMs^2.
\* Only read when dSq <= MOVE_EPS_C^2; dtMs is capped at 2000, beyond which the
\* right side exceeds every such left side, to stay within TLC's integers.
SpeedAbove(dSq, dtMs, epsC) ==
    dSq * 1000000 > epsC * epsC * Min(dtMs, 2000) * Min(dtMs, 2000)

\* a stability update in which every qualifying sample restarts the timer
Sampled_RestartsTimer(rec, newPos, t, speedEpsC) ==
    LET dtMs == Max(1, t - (IF rec.lastRawAt = 0 THEN t ELSE rec.lastRawAt))
        dSq  == DistSqC(rec.pos, newPos)
        r1   == [rec EXCEPT !.pos = newPos, !.lastRawAt = t]
    IN  IF MovedBeyond(dSq, MOVE_EPS_C) \/ SpeedAbove(dSq, dtMs, speedEpsC)
        THEN [r1 EXCEPT !.lastMoveAt = t, !.stableSince = 0, !.stablePos = <<>>]
        ELSE [r1 EXCEPT !.stableSince = t, !.stablePos = <<newPos>>]

\* the stability update of the entityMoved handler on an airborne record
Sampled(rec, newPos, t, speedEpsC) ==
    LET oldPos == rec.pos
        lastAt == IF rec.lastRawAt = 0 THEN t ELSE rec.lastRawAt
        dtMs   == Max(1, t - lastAt)
        dSq    == DistSqC(oldPos, newPos)
        r1     == [rec EXCEPT !.pos = newPos, !.lastRawAt = t]
    IN  IF MovedBeyond(dSq, MOVE_EPS_C) \/ SpeedAbove(dSq, dtMs, speedEpsC)
        THEN [r1 EXCEPT !.lastMoveAt = t, !.stableSince = 0, !.stablePos = <<>>]
        ELSE [r1 EXCEPT !.stableSince = IF rec.stableSince = 0 THEN t ELSE rec.stableSince,
                        !.stablePos = <<newPos>>]

\* bot.on("entityMoved") of variant 1
onEntityMoved(S, eId, ent, t) ==
    IF ~isEnderPearlEntity(ent) THEN S
    ELSE IF eId \notin DOMAIN S.idx THEN S
    ELSE LET key == S.idx[eId]
         IN  IF key \notin DOMAIN S.pearls
             THEN [S EXCEPT !.idx = Drop(S.idx, {eId})]
             ELSE LET rec    == [S.pearls[key] EXCEPT !.lastSeenAt = t]
                      newPos == nowPos(ent)
                  IN  IF rec.status = "stasis"
                      THEN [S EXCEPT !.pearls[key] =
                                [rec EXCEPT !.lastPos = <<newPos>>, !.missingSince = 0]]
                      ELSE LET ps1      == [S.pearls EXCEPT
                                              ![key] = Sampled(rec, newPos, t, SPEED_EPS_C)]
                               promoted == CanPromote(ps1[key], t)
                               ps2      == tryPromoteToStasis(ps1, key, t)
                               S1       == [S EXCEPT !.pearls =
                                              [ps2 EXCEPT ![key].missingSince = 0]]
                           IN  IF promoted
                               THEN scheduleSave(notifyPromoted(S1, rec.owner, key), t)
                               ELSE S1

\* bot.on("entityGone") of variant 1
onEntityGone(S, eId, ent, t) ==
    IF ~isEnderPearlEntity(ent) THEN S
    ELSE IF eId \notin DOMAIN S.idx THEN S
    ELSE removePearlRecord(S, S.idx[eId], t)

\* a grace period that ends with the first tick after the entity was missed
GraceOver_OneTick(rec, t) == t - rec.missingSince >= RESCAN_MS

\* missingFor >= MISSING_GRACE_MS
GraceOver(rec, t) == t - rec.missingSince >= MISSING_GRACE_MS

\* the missing pass of the interval callback, entry by entry of the registry
RECURSIVE MissingPass(_, _, _, _)
MissingPass(S, keys, ents, t) ==
    IF keys = <<>> THEN S
    ELSE LET key  == Head(keys)
             rec  == S.pearls[key]
             eId  == rec.entityId
             rest == Tail(keys)
         IN  IF key \notin DOMAIN S.pearls \/ eId = 0
             THEN MissingPass(S, rest, ents, t)
             ELSE IF eId \in DOMAIN ents /\ isEnderPearlEntity(ents[eId])
             THEN MissingPass([S EXCEPT !.pearls[key] = Refreshed(rec, ents[eId], t)],
                              rest, ents, t)
             ELSE IF rec.missingSince = 0
             THEN MissingPass([S EXCEPT !.pearls[key].missingSince = t], rest, ents, t)
             ELSE IF GraceOver(rec, t)
             THEN MissingPass(removePearlRecord(S, key, t), rest, ents, t)
             ELSE MissingPass(S, rest, ents, t)

\* the promotion pass of the interval callback
RECURSIVE PromotionPass(_, _, _)
PromotionPass(S, keys, t) ==
    IF keys = <<>> THEN S
    ELSE LET key  == Head(keys)
             rest == Tail(keys)
         IN  IF key \notin DOMAIN S.pearls \/ S.pearls[key].status # "airborne"
             THEN PromotionPass(S, rest, t)
             ELSE IF CanPromote(S.pearls[key], t)
             THEN PromotionPass(
                      scheduleSave(
                          notifyPromoted(
                              [S EXCEPT !.pearls = tryPromoteToStasis(S.pearls, key, t)],
                              S.pearls[key].owner, key), t),
                      rest, t)
             ELSE PromotionPass(S, rest, t)

\* the setInterval callback of variant 1 (RESCAN_MS)
onInterval(S, ents, t) ==
    LET S1 == scanLoadedPearls(S, ents, "rescan", t)
        S2 == MissingPass(S1, S1.order, ents, t)
    IN  PromotionPass(S2, S2.order, t)

\* a timer callback that does not look whether its record is still there
onRescore_NoRevalidation(S, pearlKey, t) ==
    IF pearlKey \notin DOMAIN S.pearls THEN scheduleSave(S, t)
    ELSE LET better == pickOwnerForPearl(S.pearls[pearlKey].pos, t)
         IN  IF better # "unknown"
             THEN scheduleSave([S EXCEPT !.pearls[pearlKey].owner = better], t)
             ELSE S

\* the delayed re-attribution timer set by upsertPearlFromEntity
onRescore(S, pearlKey, t) ==
    IF pearlKey \notin DOMAIN S.pearls \/ S.pearls[pearlKey].owner # "unknown" THEN S
    ELSE LET better == pickOwnerForPearl(S.pearls[pearlKey].pos, t)
         IN  IF better # "unknown"
             THEN scheduleSave([S EXCEPT !.pearls[pearlKey].owner = better], t)
             ELSE S

----------------------------------------------------------------------------
(* Handlers of variant 2 (pearlDetect.ts lines 413-713): no index, no       *)
(* reconciliation, no save; records are found by scanning the registry      *)

V2_SPEED_EPS_C == 8

pickOwnerForPearlV2(pearlPos, t) == pickOwnerW(pearlPos, t, V2_SWING_WINDOW_MS)

\* `${entity.id}:${now}`
V2Key(eId, t) == <<"", eId, t>>

\* Object.keys(state.pearls).find(k => state.pearls[k]?.entityId === entity.id),
\* <<>> when there is none
RECURSIVE FindByEntity(_, _, _)
FindByEntity(ps, keys, eId) ==
    IF keys = <<>> THEN <<>>
    ELSE IF ps[Head(keys)].entityId = eId THEN Head(keys)
    ELSE FindByEntity(ps, Tail(keys), eId)

\* bot.on("entitySpawn") of variant 2
onEntitySpawnV2(S, eId, ent, t) ==
    IF ~isEnderPearlEntity(ent) THEN S
    ELSE LET p       == nowPos(ent)
             pearlId == V2Key(eId, t)
             owner   == pickOwnerForPearlV2(p, t)
             S1      == [S EXCEPT
                           !.pearls = Put(S.pearls, pearlId, NewRecord(owner, p, t, eId)),
                           !.order  = IF pearlId \in DOMAIN S.pearls THEN S.order
                                      ELSE Append(S.order, pearlId)]
         IN  IF owner = "unknown"
             THEN [S1 EXCEPT !.rescore = S1.rescore \cup
                                 {[key |-> pearlId, at |-> t + RESCORE_DELAY_MS]}]
             ELSE S1

\* the delayed re-attribution timer set by the spawn handler of variant 2
onRescoreV2(S, pearlId, t) ==
    IF pearlId \notin DOMAIN S.pearls \/ S.pearls[pearlId].owner # "unknown" THEN S
    ELSE LET better == pickOwnerForPearlV2(S.pearls[pearlId].pos, t)
         IN  IF better # "unknown" THEN [S EXCEPT !.pearls[pearlId].owner = better] ELSE S

\* bot.on("entityMoved") of variant 2
onEntityMovedV2(S, eId, ent, t) ==
    IF ~isEnderPearlEntity(ent) THEN S
    ELSE LET recKey == FindByEntity(S.pearls, S.order, eId)
         IN  IF recKey = <<>> THEN S
             ELSE LET rec    == [S.pearls[recKey] EXCEPT !.lastSeenAt = t]
                      newPos == nowPos(ent)
                  IN  IF rec.status = "stasis"
                      THEN [S EXCEPT !.pearls[recKey] = [rec EXCEPT !.lastPos = <<newPos>>]]
                      ELSE [S EXCEPT !.pearls =
                              tryPromoteToStasis(
                                  [S.pearls EXCEPT
                                     ![recKey] = Sampled(rec, newPos, t, V2_SPEED_EPS_C)],
                                  recKey, t)]

\* bot.on("entityGone") of variant 2
onEntityGoneV2(S, eId, ent, t) ==
    IF ~isEnderPearlEntity(ent) THEN S
    ELSE LET recKey == FindByEntity(S.pearls, S.order, eId)
         IN  IF recKey = <<>> THEN S
             ELSE LET rec == S.pearls[recKey]
                      ps1 == tryPromoteToStasis(S.pearls, recKey, t)
                  IN  IF rec.status = "stasis"
                      THEN [S EXCEPT !.pearls[recKey] =
                                [rec EXCEPT !.lastSeenAt = t, !.entityId = 0]]
                      ELSE IF ps1[recKey].status = "stasis"
                      THEN [S EXCEPT !.pearls = [ps1 EXCEPT ![recKey].entityId = 0]]
                      ELSE [S EXCEPT !.pearls[recKey] =
                                [rec EXCEPT !.status = "gone", !.lastSeenAt = t,
                                            !.entityId = 0]]

\* the setInterval callback of variant 2 (500 ms)
RECURSIVE PromoteAll(_, _, _)
PromoteAll(ps, keys, t) ==
    IF keys = <<>> THEN ps
    ELSE PromoteAll(IF ps[Head(keys)].status = "airborne"
                    THEN tryPromoteToStasis(ps, Head(keys), t) ELSE ps,
                    Tail(keys), t)

onIntervalV2(S, t) == [S EXCEPT !.pearls = PromoteAll(S.pearls, S.order, t)]

----------------------------------------------------------------------------
(* Trigger sequencer: triggerPearl.ts *)

\* math.js, distSq
distSq(a, b) == DistSqC(a, b)

\* pickPearlPosFor: the key of the chosen record, <<>> for null
RECURSIVE PickNearest(_, _, _, _, _)
PickNearest(ps, keys, playerName, from, best) ==
    IF keys = <<>> THEN best
    ELSE LET id == Head(keys)
         IN  IF ps[id].owner # playerName
             THEN PickNearest(ps, Tail(keys), playerName, from, best)
             ELSE IF best = <<>> \/ distSq(from, ps[id].pos) < distSq(from, ps[best].pos)
             THEN PickNearest(ps, Tail(keys), playerName, from, id)
             ELSE PickNearest(ps, Tail(keys), playerName, from, best)

pickPearlPosFor(ps, keys, playerName, from) == PickNearest(ps, keys, playerName, from, <<>>)

ACTION_BLOCK_NAMES ==
    {<<"lever">>, <<"oak", "trapdoor">>, <<"iron", "trapdoor">>, <<"stone", "button">>,
     <<"polished", "blackstone", "button">>, <<"oak", "button">>,
     <<"oak", "pressure", "plate">>, <<"stone", "pressure", "plate">>}

\* name.endsWith("_" + the words of suffix)
EndsWithWords(name, suffix) ==
    /\ Len(name) > Len(suffix)
    /\ SubSeq(name, Len(name) - Len(suffix) + 1, Len(name)) = suffix

isActionBlockName(name) ==
    \/ name \in ACTION_BLOCK_NAMES
    \/ EndsWithWords(name, <<"button">>)
    \/ EndsWithWords(name, <<"pressure", "plate">>)
    \/ EndsWithWords(name, <<"trapdoor">>)
    \/ EndsWithWords(name, <<"door">>)
    \/ EndsWithWords(name, <<"fence", "gate">>)

Cube(radius) == {Vec(dx, dy, dz) : dx \in -radius..radius, dy \in -radius..radius,
                                   dz \in -radius..radius}

\* iteration order of the three nested loops
LoopBefore(a, b) ==
    \/ a.x < b.x
    \/ a.x = b.x /\ a.y < b.y
    \/ a.x = b.x /\ a.y = b.y /\ a.z < b.z

\* a search that never finds a block
findNearestActionBlock_NoneFound(pearlPos, radius) == <<>>

\* a search that takes the first action block the loops come to
findNearestActionBlock_FirstHit(pearlPos, radius) ==
    LET base  == Vec(pearlPos.x \div 100, pearlPos.y \div 100, pearlPos.z \div 100)
        at(o) == Vec(base.x + o.x, base.y + o.y, base.z + o.z)
        hits  == {o \in Cube(radius) : isActionBlockName(blockAt(at(o)))}
    IN  IF hits = {} THEN <<>>
        ELSE <<at(CHOOSE o \in hits : \A q \in hits \ {o} : LoopBefore(o, q))>>

\* one pass of the loop body at offset (dx, dy, dz), with best = <<>> or <<[block, d2]>>
Examine(base, dx, dy, dz, best) ==
    LET p  == Vec(base.x + dx, base.y + dy, base.z + dz)
        d2 == dx * dx + dy * dy + dz * dz
    IN  IF ~isActionBlockName(blockAt(p)) THEN best
        ELSE IF best = <<>> \/ d2 < best[1].d2 THEN <<[block |-> p, d2 |-> d2]>>
        ELSE best

\* the innermost loop from dz on
RECURSIVE LoopDz(_, _, _, _, _, _)
LoopDz(base, radius, dx, dy, dz, best) ==
    IF dz > radius THEN best
    ELSE LET b == Examine(base, dx, dy, dz, best)
         IN  IF b = <<>> THEN LoopDz(base, radius, dx, dy, dz + 1, <<>>)
             ELSE LoopDz(base, radius, dx, dy, dz + 1, b)

\* the middle loop from dy on
RECURSIVE LoopDy(_, _, _, _, _)
LoopDy(base, radius, dx, dy, best) ==
    IF dy > radius THEN best
    ELSE LET b == LoopDz(base, radius, dx, dy, -radius, best)
         IN  IF b = <<>> THEN LoopDy(base, radius, dx, dy + 1, <<>>)
             ELSE LoopDy(base, radius, dx, dy + 1, b)

\* the outer loop from dx on
RECURSIVE LoopDx(_, _, _, _)
LoopDx(base, radius, dx, best) ==
    IF dx > radius THEN best
    ELSE LET b == LoopDy(base, radius, dx, -radius, best)
         IN  IF b = <<>> THEN LoopDx(base, radius, dx + 1, <<>>)
             ELSE LoopDx(base, radius, dx + 1, b)

\* findNearestActionBlock: <<position of the block>>, or <<>> for null
findNearestActionBlock(pearlPos, radius) ==
    LET base == Vec(pearlPos.x \div 100, pearlPos.y \div 100, pearlPos.z \div 100)
        best == LoopDx(base, radius, -radius, <<>>)
    IN  IF best = <<>> THEN <<>> ELSE <<best[1].block>>

\* one call of triggerPearl: where it is, whom it serves, the record it picked and that
\* record's status when picked, the block it goes to, the error it caught; n counts the
\* calls made and served remembers the records that successful calls picked
\* log: the calls on the bot issued by the sequence in flight, in order
\* other, otherTarget: position and action block of a second call of triggerPearl
\* that was made while the first one was suspended
IdleTrig == [pc |-> "idle", player |-> "", pearlId |-> <<>>, picked |-> "",
             target |-> <<>>, err |-> "", n |-> 0, served |-> {}, log |-> <<>>,
             other |-> "idle", otherTarget |-> <<>>]

NewCall(playerName) ==
    [IdleTrig EXCEPT !.player = playerName, !.n = trig.n + 1, !.served = trig.served,
                     !.other = trig.other, !.otherTarget = trig.otherTarget]

\* a reset that releases nothing
hardResetMovement_Noop(c) == c

\* pathing.ts, hardResetMovement: the goal is dropped and every control released
hardResetMovement(c) == "clean"

\* a catch block that notifies without resetting
Caught_NoReset(err) ==
    /\ ctrl' = ctrl
    /\ trig' = [trig EXCEPT !.pc = "webhook", !.err = err,
                             !.log = trig.log \o <<"webhook">>]
    /\ UNCHANGED busy

\* the catch block up to its await of sendWebhook
Caught(err) ==
    /\ ctrl' = hardResetMovement(ctrl)
    /\ trig' = [trig EXCEPT !.pc = "webhook", !.err = err,
                             !.log = trig.log \o <<"reset", "webhook">>]
    /\ UNCHANGED busy

\* lines 100-128: flag, pick, block search, start of the 3D approach
TriggerStart(playerName) ==
    /\ trig.pc = "idle"
    /\ trig.n < MaxTriggers
    /\ busy' = TRUE
    /\ LET picked == pickPearlPosFor(pearls, order, playerName, botPos)
       IN  IF picked = <<>>
           THEN /\ ctrl' = hardResetMovement(ctrl)
                /\ trig' = [NewCall(playerName) EXCEPT !.pc = "webhook", !.err = "NotFound",
                                                        !.log = <<"reset", "webhook">>]
           ELSE LET block == findNearestActionBlock(pearls[picked].pos, ACTION_RADIUS)
                    t1    == [NewCall(playerName) EXCEPT !.pearlId = picked,
                                                         !.picked = pearls[picked].status]
                IN  IF block = <<>>
                    THEN /\ ctrl' = hardResetMovement(ctrl)
                         /\ trig' = [t1 EXCEPT !.pc = "webhook", !.err = "NoActionBlock",
                                                !.log = <<"reset", "webhook">>]
                    ELSE \* gotoNear: reset, then pathfinder.goto drives the controls
                         /\ ctrl' = "latched"
                         /\ trig' = [t1 EXCEPT !.pc = "nav3d", !.target = block,
                                                !.log = <<"reset", "gotoNear">>]
    /\ UNCHANGED <<now, pearls, order, entityToKey, entities, lastSwing, rescoreTimers,
                   saveTimer, delayedScanAt, nextTickAt, botPos, events, hist, general, disk, prev>>

\* a 3D approach whose failure reaches the outer catch
Nav3dEnd_Aborts(outcome) ==
    /\ trig.pc = "nav3d"
    /\ IF outcome = "ok"
       THEN /\ ctrl' = hardResetMovement(hardResetMovement(ctrl))
            /\ trig' = [trig EXCEPT !.pc = "look",
                                     !.log = trig.log \o <<"reset", "reset", "lookAt">>]
            /\ botPos' = Vec(trig.target[1].x * 100, trig.target[1].y * 100,
                             trig.target[1].z * 100)
       ELSE /\ ctrl' = hardResetMovement(hardResetMovement(ctrl))
            /\ trig' = [trig EXCEPT !.pc = "webhook", !.err = "NavigationFailure",
                                     !.log = trig.log \o <<"reset", "reset", "webhook">>]
            /\ UNCHANGED botPos
    /\ UNCHANGED <<now, pearls, order, entityToKey, entities, lastSwing, rescoreTimers,
                   saveTimer, delayedScanAt, nextTickAt, busy, events, hist, general, disk, prev>>

\* gotoNear settles: its finally resets; on failure the catch resets and gotoNearXZ starts
Nav3dEnd(outcome) ==
    /\ trig.pc = "nav3d"
    /\ IF outcome = "ok"
       THEN /\ ctrl' = hardResetMovement(hardResetMovement(ctrl))
            /\ trig' = [trig EXCEPT !.pc = "look",
                                     !.log = trig.log \o <<"reset", "reset", "lookAt">>]
            /\ botPos' = Vec(trig.target[1].x * 100, trig.target[1].y * 100,
                             trig.target[1].z * 100)
       ELSE /\ ctrl' = "latched"
            /\ trig' = [trig EXCEPT !.pc = "navxz",
                                     !.log = trig.log \o <<"reset", "reset", "reset",
                                                           "gotoNearXZ">>]
            /\ UNCHANGED botPos
    /\ UNCHANGED <<now, pearls, order, entityToKey, entities, lastSwing, rescoreTimers,
                   saveTimer, delayedScanAt, nextTickAt, busy, events, hist, general, disk, prev>>

\* a horizontal approach after which look-at follows the reset of its finally directly
NavXZEnd_SingleReset(outcome) ==
    /\ trig.pc = "navxz"
    /\ ctrl' = hardResetMovement(ctrl)
    /\ IF outcome = "ok"
       THEN /\ trig' = [trig EXCEPT !.pc = "look",
                                     !.log = trig.log \o <<"reset", "lookAt">>]
            /\ botPos' = Vec(trig.target[1].x * 100, botPos.y, trig.target[1].z * 100)
       ELSE /\ trig' = [trig EXCEPT !.pc = "xzwait",
                                     !.log = trig.log \o <<"reset", "reset", "waitForTicks">>]
            /\ UNCHANGED botPos
    /\ UNCHANGED <<now, pearls, order, entityToKey, entities, lastSwing, rescoreTimers,
                   saveTimer, delayedScanAt, nextTickAt, busy, events, hist, general, disk, prev>>

\* gotoNearXZ settles: reset in its finally; on failure reset and wait two ticks
NavXZEnd(outcome) ==
    /\ trig.pc = "navxz"
    /\ ctrl' = hardResetMovement(hardResetMovement(ctrl))
    /\ IF outcome = "ok"
       THEN /\ trig' = [trig EXCEPT !.pc = "look",
                                     !.log = trig.log \o <<"reset", "reset", "lookAt">>]
            /\ botPos' = Vec(trig.target[1].x * 100, botPos.y, trig.target[1].z * 100)
       ELSE /\ trig' = [trig EXCEPT !.pc = "xzwait",
                                     !.log = trig.log \o <<"reset", "reset", "waitForTicks">>]
            /\ UNCHANGED botPos
    /\ UNCHANGED <<now, pearls, order, entityToKey, entities, lastSwing, rescoreTimers,
                   saveTimer, delayedScanAt, nextTickAt, busy, events, hist, general, disk, prev>>

\* an awaited collaborator call settles: waitForTicks, lookAt, activateBlock
StepEnd(outcome) ==
    /\ trig.pc \in {"xzwait", "look", "wait1", "activate", "wait2"}
    /\ IF outcome = "fail"
       THEN Caught("InteractionFailure")
       ELSE IF trig.pc = "wait2"
       THEN \* return; finally clears the flag
            /\ trig' = [trig EXCEPT !.pc = "done"]
            /\ busy' = FALSE
            /\ UNCHANGED ctrl
       ELSE /\ trig' = [trig EXCEPT
                          !.pc  = CASE trig.pc = "xzwait"   -> "look"
                                    [] trig.pc = "look"     -> "wait1"
                                    [] trig.pc = "wait1"    -> "activate"
                                    [] trig.pc = "activate" -> "wait2",
                          !.log = trig.log \o
                                  CASE trig.pc = "xzwait"   -> <<"reset", "lookAt">>
                                    [] trig.pc = "look"     -> <<"waitForTicks">>
                                    [] trig.pc = "wait1"    -> <<"activateBlock">>
                                    [] trig.pc = "activate" -> <<"waitForTicks">>]
            /\ ctrl' = IF trig.pc = "xzwait" THEN hardResetMovement(ctrl) ELSE ctrl
            /\ UNCHANGED busy
    /\ UNCHANGED <<now, pearls, order, entityToKey, entities, lastSwing, rescoreTimers,
                   saveTimer, delayedScanAt, nextTickAt, botPos, events, hist, general, disk, prev>>

\* a rethrow that leaves the flag as it is
WebhookEnd_FlagKept ==
    /\ trig.pc = "webhook"
    /\ trig' = [trig EXCEPT !.pc = "failed"]
    /\ UNCHANGED <<now, pearls, order, entityToKey, entities, lastSwing, rescoreTimers,
                   saveTimer, delayedScanAt, nextTickAt, busy, ctrl, botPos, events,
                   general, disk, prev, hist>>

\* sendWebhook settles: the error is rethrown and finally clears the flag
WebhookEnd ==
    /\ trig.pc = "webhook"
    /\ trig' = [trig EXCEPT !.pc = "failed"]
    /\ busy' = FALSE
    /\ UNCHANGED <<now, pearls, order, entityToKey, entities, lastSwing, rescoreTimers,
                   saveTimer, delayedScanAt, nextTickAt, ctrl, botPos, events, hist,
                   general, disk, prev>>

\* the caller (chat command, POST /trigger/player) takes the result; the HTTP route
\* writes the state file directly, which leaves the registry as it is
TriggerReturn ==
    /\ trig.pc \in {"done", "failed"}
    /\ trig' = [IdleTrig EXCEPT !.n = trig.n,
                                !.served = IF trig.pc = "done"
                                           THEN trig.served \cup {trig.pearlId}
                                           ELSE trig.served,
                                !.other = trig.other, !.otherTarget = trig.otherTarget]
    /\ UNCHANGED <<now, pearls, order, entityToKey, entities, lastSwing, rescoreTimers,
                   saveTimer, delayedScanAt, nextTickAt, busy, ctrl, botPos, events, hist,
                   general, disk, prev>>

\* the calls on the bot in which a call of triggerPearl is suspended
Suspended == {"nav3d", "navxz", "xzwait", "look", "wait1", "activate", "wait2"}

\* a second request (POST /trigger/player) calls triggerPearl while the call above is
\* suspended in a call on the bot; neither caller consults the flag.  The request is
\* for a player without a record: flag set, pick, throw, catch with reset, sendWebhook
\* (a stub that settles without leaving the turn), rethrow, finally clears the flag
OtherRequest(playerName) ==
    /\ trig.pc \in Suspended
    /\ trig.n < MaxTriggers
    /\ pickPearlPosFor(pearls, order, playerName, botPos) = <<>>
    /\ busy' = FALSE
    /\ ctrl' = hardResetMovement(ctrl)
    /\ trig' = [trig EXCEPT !.n = trig.n + 1]
    /\ UNCHANGED <<now, pearls, order, entityToKey, entities, lastSwing, rescoreTimers,
                   saveTimer, delayedScanAt, nextTickAt, botPos, events, hist, general, disk, prev>>

\* a second request (chat command ~s, POST /trigger/player) for a player with a record
\* near an action block, made while the call above is suspended: flag set (again),
\* pick, find the block, gotoNear resets and starts pathfinder.goto
OtherStart(playerName) ==
    /\ trig.pc \in Suspended
    /\ trig.other = "idle"
    /\ trig.n < MaxTriggers
    /\ LET picked == pickPearlPosFor(pearls, order, playerName, botPos)
       IN  /\ picked # <<>>
           /\ findNearestActionBlock(pearls[picked].pos, ACTION_RADIUS) # <<>>
           /\ trig' = [trig EXCEPT
                         !.n = trig.n + 1, !.other = "nav3d",
                         !.otherTarget = findNearestActionBlock(pearls[picked].pos,
                                                                ACTION_RADIUS)]
    /\ busy' = TRUE
    /\ ctrl' = "latched"
    /\ UNCHANGED <<now, pearls, order, entityToKey, entities, lastSwing, rescoreTimers,
                   saveTimer, delayedScanAt, nextTickAt, botPos, events, hist, general, disk, prev>>

\* the call on the bot in which the second call is suspended settles; the second call
\* runs on as the first one does: navigation is best effort, any other failure reaches
\* the catch (reset, sendWebhook, rethrow), and its finally clears the flag
OtherEnd(outcome) ==
    /\ trig.other \in Suspended
    /\ LET tgt == trig.otherTarget[1]
           pc  == trig.other
       IN  CASE pc = "nav3d" /\ outcome = "ok" ->
                  /\ trig' = [trig EXCEPT !.other = "look"]
                  /\ ctrl' = hardResetMovement(hardResetMovement(ctrl))
                  /\ botPos' = Vec(tgt.x * 100, tgt.y * 100, tgt.z * 100)
                  /\ UNCHANGED busy
             [] pc = "nav3d" /\ outcome = "fail" ->
                  /\ trig' = [trig EXCEPT !.other = "navxz"]
                  /\ ctrl' = "latched"
                  /\ UNCHANGED <<botPos, busy>>
             [] pc = "navxz" /\ outcome = "ok" ->
                  /\ trig' = [trig EXCEPT !.other = "look"]
                  /\ ctrl' = hardResetMovement(hardResetMovement(ctrl))
                  /\ botPos' = Vec(tgt.x * 100, botPos.y, tgt.z * 100)
                  /\ UNCHANGED busy
             [] pc = "navxz" /\ outcome = "fail" ->
                  /\ trig' = [trig EXCEPT !.other = "xzwait"]
                  /\ ctrl' = hardResetMovement(hardResetMovement(ctrl))
                  /\ UNCHANGED <<botPos, busy>>
             [] pc \notin {"nav3d", "navxz"} /\ outcome = "fail" ->
                  /\ trig' = [trig EXCEPT !.other = "idle", !.otherTarget = <<>>]
                  /\ ctrl' = hardResetMovement(ctrl)
                  /\ busy' = FALSE
                  /\ UNCHANGED botPos
             [] pc = "wait2" /\ outcome = "ok" ->
                  /\ trig' = [trig EXCEPT !.other = "idle", !.otherTarget = <<>>]
                  /\ busy' = FALSE
                  /\ UNCHANGED <<ctrl, botPos>>
             [] OTHER ->
                  /\ trig' = [trig EXCEPT
                                !.other = CASE pc = "xzwait"   -> "look"
                                            [] pc = "look"     -> "wait1"
                                            [] pc = "wait1"    -> "activate"
                                            [] pc = "activate" -> "wait2"]
                  /\ ctrl' = IF pc = "xzwait" THEN hardResetMovement(ctrl) ELSE ctrl
                  /\ UNCHANGED <<botPos, busy>>
    /\ UNCHANGED <<now, pearls, order, entityToKey, entities, lastSwing, rescoreTimers,
                   saveTimer, delayedScanAt, nextTickAt, events, hist, general, disk, prev>>

----------------------------------------------------------------------------
(* Time: the clock visits a fixed set of instants; a due timer fires before *)
(* the clock moves on.                                                     *)

StartAt == RESCAN_MS

\* offsets from the start, besides the interval's, at which the world is looked at:
\* the re-score delay and the swing window (300), the age and settle thresholds
FineOffsets == {SWING_WINDOW_MS, MIN_AGE_MS - 100, MIN_AGE_MS, MIN_AGE_MS + SETTLE_MS}

\* world events arrive until a pearl thrown at the start can have settled;
\* after that only the timers run
EventsUntil == StartAt + MIN_AGE_MS + SETTLE_MS

MayHappen == events < MaxEvents /\ now <= EventsUntil

Instants ==
    {StartAt + k * RESCAN_MS : k \in 0..MaxTicks} \cup {StartAt + o : o \in FineOffsets}

TimerDue ==
    \/ now >= nextTickAt
    \/ saveTimer # 0 /\ now >= saveTimer
    \/ delayedScanAt # 0 /\ now >= delayedScanAt
    \/ \E tm \in rescoreTimers : now >= tm.at

----------------------------------------------------------------------------
(* The state file, and the housekeeping of general.ts *)

\* contents of a file: JSON.stringify of a registry, complete or cut short
Whole(reg) == [state |-> reg, whole |-> TRUE]

Partial(reg) == [state |-> reg, whole |-> FALSE]

\* loadState has read a complete file; no temp file of this process exists
DiskAt(reg) ==
    [file |-> <<Whole(reg)>>, tmp |-> <<>>, up |-> TRUE, reply |-> 0, logged |-> 0]

\* how a run of saveState ends: it returns, a file-system call throws while the
\* temp or state file is being written, or the process dies at one of its steps
SaveOutcomes == {"ok", "throw", "crashInWrite", "crashAfterWrite", "crashAfterRename"}

\* state.ts, saveState: write the temp file, rename it over the state file; the
\* finally removes a temp file that is still there
saveState(d, reg, outcome) ==
    CASE outcome = "ok"               -> [d EXCEPT !.file = <<Whole(reg)>>, !.tmp = <<>>]
      [] outcome = "throw"            -> [d EXCEPT !.tmp = <<>>]
      [] outcome = "crashInWrite"     -> [d EXCEPT !.tmp = <<Partial(reg)>>, !.up = FALSE]
      [] outcome = "crashAfterWrite"  -> [d EXCEPT !.tmp = <<Whole(reg)>>, !.up = FALSE]
      [] outcome = "crashAfterRename" -> [d EXCEPT !.file = <<Whole(reg)>>, !.tmp = <<>>,
                                                   !.up = FALSE]

\* state.ts, the earlier saveState: one writeFileSync onto the state file itself
saveStateInPlace(d, reg, outcome) ==
    CASE outcome = "ok"           -> [d EXCEPT !.file = <<Whole(reg)>>]
      [] outcome = "throw"        -> [d EXCEPT !.file = <<Partial(reg)>>]
      [] outcome = "crashInWrite" -> [d EXCEPT !.file = <<Partial(reg)>>, !.up = FALSE]
      [] OTHER                    -> [d EXCEPT !.file = <<Whole(reg)>>, !.up = FALSE]

\* installGeneralBotStuff: nothing is being eaten, nothing was issued
IdleGeneral == [eating |-> FALSE, pc |-> "idle", issued |-> {}]

----------------------------------------------------------------------------
(* Initial state: state.json is loaded and installPearlDetection has run   *)

\* a settled pearl of alice written by an earlier session
LoadedStasis ==
    [owner |-> "alice", pos |-> snapToBlock(PRest), createdAt |-> 400, lastSeenAt |-> 900,
     lastMoveAt |-> 400, lastPos |-> <<PRest>>, entityId |-> 2, status |-> "stasis",
     lastRawAt |-> 700, stableSince |-> 0, stablePos |-> <<>>, missingSince |-> 0]

\* a pearl of alice that was still in flight when the earlier session ended
LoadedAirborne ==
    [owner |-> "alice", pos |-> PFly, createdAt |-> 400, lastSeenAt |-> 900,
     lastMoveAt |-> 700, lastPos |-> <<>>, entityId |-> 1, status |-> "airborne",
     lastRawAt |-> 700, stableSince |-> 0, stablePos |-> <<>>, missingSince |-> 0]

KeyStasis == PearlKey("spawn", 2, 400)

KeyAirborne == PearlKey("spawn", 1, 400)

NoPearls == [pearls |-> <<>>, order |-> <<>>]

\* what is on disk and what is loaded around the bot when the process starts
InitScenes ==
    {[reg |-> NoPearls, ents |-> <<>>],
     [reg |-> NoPearls, ents |-> (1 :> Pearl(PRest))],
     [reg |-> [pearls |-> (KeyStasis :> LoadedStasis), order |-> <<KeyStasis>>],
      ents |-> (2 :> Pearl(PRest))],
     [reg |-> [pearls |-> (KeyStasis :> LoadedStasis), order |-> <<KeyStasis>>],
      ents |-> <<>>],
     [reg |-> [pearls |-> (KeyAirborne :> LoadedAirborne), order |-> <<KeyAirborne>>],
      ents |-> (1 :> Pearl(PFly))]}

\* no bot instance has been destroyed
NoPrev == [live |-> FALSE, idx |-> <<>>, ents |-> <<>>, rescore |-> {}, save |-> 0,
           delayedScanAt |-> 0, nextTickAt |-> 0]

\* loadState, then installPearlDetection up to its startup scan
Installed(scene) ==
    LET S0 == [pearls |-> scene.reg.pearls, order |-> scene.reg.order,
               idx |-> rebuildIndex(scene.reg.pearls, scene.reg.order),
               rescore |-> {}, save |-> 0, sent |-> <<>>]
    IN  scanLoadedPearls(S0, scene.ents, "startup", StartAt)

InitFrom(scene) ==
    LET S1 == Installed(scene)
    IN  /\ now = StartAt
        /\ entities = scene.ents
        /\ pearls = S1.pearls
        /\ order = S1.order
        /\ entityToKey = S1.idx
        /\ rescoreTimers = S1.rescore
        /\ saveTimer = S1.save
        /\ hist = [since  |-> [e \in EntityIds |-> StartAt],
                   snap   |-> [e \in EntityIds |-> 0],
                   noMove |-> DOMAIN S1.pearls \ DOMAIN scene.reg.pearls,
                   reaped |-> {}, whispers |-> <<>>]
        /\ lastSwing = [i \in PlayerEntityIds |-> 0]
        /\ delayedScanAt = StartAt + DELAYED_SCAN_MS
        /\ nextTickAt = StartAt + RESCAN_MS
        /\ trig = IdleTrig
        /\ busy = FALSE
        /\ ctrl = "clean"
        /\ events = 0
        /\ general = IdleGeneral
        /\ disk = DiskAt(scene.reg)
        /\ prev = NoPrev

Init ==
    /\ \E scene \in InitScenes : InitFrom(scene)
    /\ botPos = BotHome

----------------------------------------------------------------------------
(* Actions of variant 1 *)

Commit(S) ==
    /\ pearls' = S.pearls
    /\ order' = S.order
    /\ entityToKey' = S.idx
    /\ rescoreTimers' = S.rescore
    /\ saveTimer' = S.save

\* hist after a handler: ps is the registry it leaves, moved the entity ids it saw
\* move, changed the entity ids whose presence or position changed in the world,
\* seen the entity ids the handler was handed or found loaded
HistAfter(ps, moved, changed, seen) ==
    [hist EXCEPT
       !.since  = [e \in EntityIds |-> IF e \in changed THEN now ELSE hist.since[e]],
       !.snap   = [e \in EntityIds |-> IF e \in seen THEN 0 ELSE hist.snap[e]],
       !.noMove = {k \in (hist.noMove \cap DOMAIN ps) \cup (DOMAIN ps \ DOMAIN pearls) :
                     ps[k].entityId \notin moved}]

\* the whispers a handler of the first variant has sent, each with the handler it was
Whispered(S, by) == [i \in 1..Len(S.sent) |-> [to |-> S.sent[i].to, key |-> S.sent[i].key,
                                               by |-> by]]

WorldChanged(e, ent) == IF e \in DOMAIN entities /\ entities[e] = ent THEN {} ELSE {e}

\* the server announces pearl e at p (also again for an id that is already loaded)
EntitySpawn(e, p) ==
    /\ MayHappen
    /\ LET S == upsertPearlFromEntity(Store, e, Pearl(p), "spawn", now)
       IN  /\ Commit(S)
           /\ hist' = HistAfter(S.pearls, {}, WorldChanged(e, Pearl(p)), {e})
    /\ entities' = Put(entities, e, Pearl(p))
    /\ events' = events + 1
    /\ UNCHANGED <<now, lastSwing, delayedScanAt, nextTickAt, trig, busy, ctrl, botPos,
                   general, disk, prev>>

\* a position update of loaded pearl e
EntityMoved(e, p) ==
    /\ MayHappen
    /\ e \in DOMAIN entities
    /\ LET S == onEntityMoved(Store, e, Pearl(p), now)
       IN  /\ Commit(S)
           /\ hist' = [HistAfter(S.pearls, {e}, WorldChanged(e, Pearl(p)), {e}) EXCEPT
                      !.whispers = hist.whispers \o Whispered(S, "move")]
    /\ entities' = Put(entities, e, Pearl(p))
    /\ events' = events + 1
    /\ UNCHANGED <<now, lastSwing, delayedScanAt, nextTickAt, trig, busy, ctrl, botPos,
                   general, disk, prev>>

\* the server destroys pearl e: the handler runs, then the entity leaves bot.entities
EntityGone(e) ==
    /\ MayHappen
    /\ e \in DOMAIN entities
    /\ LET S == onEntityGone(Store, e, entities[e], now)
       IN  /\ Commit(S)
           /\ hist' = HistAfter(S.pearls, {}, {e}, {})
    /\ entities' = Drop(entities, {e})
    /\ events' = events + 1
    /\ UNCHANGED <<now, lastSwing, delayedScanAt, nextTickAt, trig, busy, ctrl, botPos,
                   general, disk, prev>>

\* a pearl gets loaded without a spawn event reaching the handlers
SilentAppear(e, p) ==
    /\ MayHappen
    /\ e \notin DOMAIN entities
    /\ entities' = Put(entities, e, Pearl(p))
    /\ hist' = HistAfter(pearls, {}, {e}, {})
    /\ events' = events + 1
    /\ UNCHANGED <<now, pearls, order, entityToKey, lastSwing, rescoreTimers, saveTimer,
                   delayedScanAt, nextTickAt, trig, busy, ctrl, botPos, general, disk, prev>>

\* a pearl gets unloaded without an entityGone event reaching the handlers
SilentVanish(e) ==
    /\ MayHappen
    /\ e \in DOMAIN entities
    /\ entities' = Drop(entities, {e})
    /\ hist' = HistAfter(pearls, {}, {e}, {})
    /\ events' = events + 1
    /\ UNCHANGED <<now, pearls, order, entityToKey, lastSwing, rescoreTimers, saveTimer,
                   delayedScanAt, nextTickAt, trig, busy, ctrl, botPos, general, disk, prev>>

\* the "animation" packet handler
Swing(u) ==
    /\ MayHappen
    /\ lastSwing' = [lastSwing EXCEPT ![PlayerEntity(u).id] = now]
    /\ events' = events + 1
    /\ UNCHANGED <<now, pearls, order, entityToKey, entities, rescoreTimers, saveTimer,
                   delayedScanAt, nextTickAt, trig, busy, ctrl, botPos, hist, general, disk, prev>>

SnapAfter ==
    [e \in EntityIds |-> IF e \in DOMAIN entities THEN 0
                         ELSE IF hist.snap[e] = 0 THEN now ELSE hist.snap[e]]

\* the reconciliation interval fires
ReconcileTick ==
    /\ now >= nextTickAt
    /\ LET S == onInterval(Store, entities, now)
       IN  /\ Commit(S)
           /\ hist' = [HistAfter(S.pearls, {}, {}, {}) EXCEPT
                      !.whispers = hist.whispers \o Whispered(S, "tick"),
                      !.snap = SnapAfter,
                      !.reaped = hist.reaped \cup (DOMAIN pearls \ DOMAIN S.pearls)]
    /\ nextTickAt' = nextTickAt + RESCAN_MS
    /\ UNCHANGED <<now, entities, lastSwing, delayedScanAt, trig, busy, ctrl, botPos, events,
                   general, disk, prev>>

\* a delayed re-attribution timer fires
RescoreFire ==
    /\ \E tm \in rescoreTimers :
         /\ now >= tm.at
         /\ LET S == onRescore([Store EXCEPT !.rescore = rescoreTimers \ {tm}], tm.key, now)
            IN  /\ Commit(S)
                /\ hist' = HistAfter(S.pearls, {}, {}, {})
    /\ UNCHANGED <<now, entities, lastSwing, delayedScanAt, nextTickAt, trig, busy, ctrl,
                   botPos, events, general, disk, prev>>

\* the one-shot delayed startup scan fires
DelayedScan ==
    /\ delayedScanAt # 0
    /\ now >= delayedScanAt
    /\ LET S == scanLoadedPearls(Store, entities, "delayed", now)
       IN  /\ Commit(S)
           /\ hist' = HistAfter(S.pearls, {}, {}, DOMAIN entities)
    /\ delayedScanAt' = 0
    /\ UNCHANGED <<now, entities, lastSwing, nextTickAt, trig, busy, ctrl, botPos, events,
                   general, disk, prev>>

\* the debounced save fires: saveState(state)
SaveFire ==
    /\ saveTimer # 0
    /\ now >= saveTimer
    /\ saveTimer' = 0
    /\ UNCHANGED <<now, pearls, order, entityToKey, entities, lastSwing, rescoreTimers,
                   delayedScanAt, nextTickAt, trig, busy, ctrl, botPos, events, hist,
                   general, disk, prev>>

\* time passes to the next of the given instants
AdvanceIn(instants) ==
    /\ ~TimerDue
    /\ \E t \in instants :
         /\ t > now
         /\ \A u \in instants : u > now => t <= u
         /\ now' = t
    /\ UNCHANGED <<pearls, order, entityToKey, entities, lastSwing, rescoreTimers, saveTimer,
                   delayedScanAt, nextTickAt, trig, busy, ctrl, botPos, events, hist,
                   general, disk, prev>>

Advance == AdvanceIn(Instants)

Outcomes == {"ok", "fail"}

Next ==
    \/ \E e \in EntityIds : \E p \in PositionsOf(e) : EntitySpawn(e, p)
    \/ \E e \in EntityIds : \E p \in PositionsOf(e) : EntityMoved(e, p)
    \/ \E e \in EntityIds : EntityGone(e)
    \/ \E e \in EntityIds : \E p \in PositionsOf(e) \cap {PRest} : SilentAppear(e, p)
    \/ SilentVanish(1)
    \/ \E i \in 1..Len(PlayerNames) : Swing(PlayerNames[i])
    \/ ReconcileTick
    \/ RescoreFire
    \/ DelayedScan
    \/ SaveFire
    \/ Advance

\* variant 1 of the pearl detection, from process start
Spec == Init /\ [][Next]_vars

----------------------------------------------------------------------------
(* Variant 2 of the pearl detection *)

InstantsV2 ==
    {StartAt + k * V2_INTERVAL_MS : k \in 0..MaxTicks} \cup {StartAt + o : o \in FineOffsets}

KeyStasisV2 == V2Key(2, 400)

KeyAirborneV2 == V2Key(1, 400)

ScenesV2 ==
    {[reg |-> NoPearls, ents |-> <<>>],
     [reg |-> [pearls |-> (KeyStasisV2 :> LoadedStasis), order |-> <<KeyStasisV2>>],
      ents |-> (2 :> Pearl(PRest))],
     [reg |-> [pearls |-> (KeyAirborneV2 :> LoadedAirborne), order |-> <<KeyAirborneV2>>],
      ents |-> (1 :> Pearl(PFly))]}

\* loadState, then installPearlDetection of variant 2: handlers and interval only
InitV2 ==
    /\ \E scene \in ScenesV2 :
         /\ entities = scene.ents
         /\ pearls = scene.reg.pearls
         /\ order = scene.reg.order
         /\ disk = DiskAt(scene.reg)
         /\ prev = NoPrev
    /\ general = IdleGeneral
    /\ now = StartAt
    /\ entityToKey = <<>>
    /\ rescoreTimers = {}
    /\ saveTimer = 0
    /\ delayedScanAt = 0
    /\ nextTickAt = StartAt + V2_INTERVAL_MS
    /\ hist = [since |-> [e \in EntityIds |-> StartAt], snap |-> [e \in EntityIds |-> 0],
               noMove |-> {}, reaped |-> {}, whispers |-> <<>>]
    /\ lastSwing = [i \in PlayerEntityIds |-> 0]
    /\ trig = IdleTrig
    /\ busy = FALSE
    /\ ctrl = "clean"
    /\ botPos = BotHome
    /\ events = 0

EntitySpawnV2(e, p) ==
    /\ MayHappen
    /\ Commit(onEntitySpawnV2(Store, e, Pearl(p), now))
    /\ entities' = Put(entities, e, Pearl(p))
    /\ events' = events + 1
    /\ UNCHANGED <<now, lastSwing, delayedScanAt, nextTickAt, trig, busy, ctrl, botPos, hist,
                   general, disk, prev>>

EntityMovedV2(e, p) ==
    /\ MayHappen
    /\ e \in DOMAIN entities
    /\ Commit(onEntityMovedV2(Store, e, Pearl(p), now))
    /\ entities' = Put(entities, e, Pearl(p))
    /\ events' = events + 1
    /\ UNCHANGED <<now, lastSwing, delayedScanAt, nextTickAt, trig, busy, ctrl, botPos, hist,
                   general, disk, prev>>

EntityGoneV2(e) ==
    /\ MayHappen
    /\ e \in DOMAIN entities
    /\ Commit(onEntityGoneV2(Store, e, entities[e], now))
    /\ entities' = Drop(entities, {e})
    /\ events' = events + 1
    /\ UNCHANGED <<now, lastSwing, delayedScanAt, nextTickAt, trig, busy, ctrl, botPos, hist,
                   general, disk, prev>>

PromoteTickV2 ==
    /\ now >= nextTickAt
    /\ Commit(onIntervalV2(Store, now))
    /\ nextTickAt' = nextTickAt + V2_INTERVAL_MS
    /\ UNCHANGED <<now, entities, lastSwing, delayedScanAt, trig, busy, ctrl, botPos,
                   events, hist, general, disk, prev>>

RescoreFireV2 ==
    /\ \E tm \in rescoreTimers :
         /\ now >= tm.at
         /\ Commit(onRescoreV2([Store EXCEPT !.rescore = rescoreTimers \ {tm}], tm.key, now))
    /\ UNCHANGED <<now, entities, lastSwing, delayedScanAt, nextTickAt, trig, busy, ctrl,
                   botPos, events, hist, general, disk, prev>>

AdvanceV2 == AdvanceIn(InstantsV2)

NextV2 ==
    \/ \E e \in EntityIds : \E p \in PositionsOf(e) : EntitySpawnV2(e, p)
    \/ \E e \in EntityIds : \E p \in PositionsOf(e) : EntityMovedV2(e, p)
    \/ \E e \in EntityIds : EntityGoneV2(e)
    \/ \E i \in 1..Len(PlayerNames) : Swing(PlayerNames[i])
    \/ PromoteTickV2
    \/ RescoreFireV2
    \/ AdvanceV2

SpecV2 == InitV2 /\ [][NextV2]_vars

----------------------------------------------------------------------------
(* Variant 1 restarted while a pearl was settling: state.json carries the   *)
(* tracking fields that the handlers bolt onto a record                     *)

\* a pearl of alice whose stability timer was running, on its last sample at PRest,
\* when the earlier session saved the registry
LoadedSettling ==
    [owner |-> "alice", pos |-> PRest, createdAt |-> 400, lastSeenAt |-> 900,
     lastMoveAt |-> 400, lastPos |-> <<>>, entityId |-> 1, status |-> "airborne",
     lastRawAt |-> 700, stableSince |-> 700, stablePos |-> <<PRest>>, missingSince |-> 0]

InitSettling ==
    /\ InitFrom([reg |-> [pearls |-> (KeyAirborne :> LoadedSettling), order |-> <<KeyAirborne>>],
                 ents |-> (1 :> Pearl(PRest))])
    /\ botPos = BotHome

SpecSettling == InitSettling /\ [][Next]_vars

----------------------------------------------------------------------------
(* The debounced save on the timer's own clock: time also stops at the      *)
(* instant the pending save timer is due, and at an instant inside the      *)
(* debounce window                                                          *)

SaveInstants == Instants \cup {StartAt + 100}

AdvanceSave == AdvanceIn(SaveInstants \cup ({saveTimer} \ {0}))

NextSave ==
    \/ \E e \in EntityIds : \E p \in PositionsOf(e) : EntitySpawn(e, p)
    \/ \E e \in EntityIds : \E p \in PositionsOf(e) : EntityMoved(e, p)
    \/ \E e \in EntityIds : EntityGone(e)
    \/ ReconcileTick
    \/ RescoreFire
    \/ DelayedScan
    \/ SaveFire
    \/ AdvanceSave

SpecSave == Init /\ [][NextSave]_vars

\* the event loop runs the callback of a timer that is due
SpecSaveFair == SpecSave /\ WF_vars(SaveFire)

----------------------------------------------------------------------------
(* Attribution at close range in time and space: the swing, spawn and       *)
(* re-score handlers of either variant, with swings at any instant and      *)
(* pearls appearing inside and outside the candidate radius                 *)

\* 15 blocks from alice and 7 from bob; more than 14 blocks from both
PEdge == Vec(1350, 6406, -350)

PAway == Vec(3050, 6406, -350)

AttrPositions == {PRest, PFly, PEdge, PAway}

\* the instants around the swing window of variant 1 and of variant 2
AttrInstants == {StartAt + o : o \in {0, 250, SWING_WINDOW_MS, SWING_WINDOW_MS + 1}}

AttrInstantsV2 == {StartAt + o : o \in {0, 1850, 1900, V2_SWING_WINDOW_MS + 1}}

\* the "animation" packet handler, for any player at any instant
SwingAny(u) ==
    /\ lastSwing[PlayerEntity(u).id] # now
    /\ lastSwing' = [lastSwing EXCEPT ![PlayerEntity(u).id] = now]
    /\ UNCHANGED <<now, pearls, order, entityToKey, entities, rescoreTimers, saveTimer,
                   delayedScanAt, nextTickAt, trig, busy, ctrl, botPos, events, hist,
                   general, disk, prev>>

AdvanceAttr == AdvanceIn(AttrInstants)

InitAttr ==
    /\ InitFrom([reg |-> NoPearls, ents |-> <<>>])
    /\ botPos = BotHome

NextAttr ==
    \/ \E i \in 1..Len(PlayerNames) : SwingAny(PlayerNames[i])
    \/ \E p \in AttrPositions : EntitySpawn(1, p)
    \/ RescoreFire
    \/ SaveFire
    \/ AdvanceAttr

SpecAttr == InitAttr /\ [][NextAttr]_vars

AdvanceAttrV2 == AdvanceIn(AttrInstantsV2)

\* variant 2 installed over an empty state.json
InitAttrV2 ==
    /\ InitV2
    /\ pearls = <<>>

NextAttrV2 ==
    \/ \E i \in 1..Len(PlayerNames) : SwingAny(PlayerNames[i])
    \/ \E p \in AttrPositions : EntitySpawnV2(1, p)
    \/ RescoreFireV2
    \/ PromoteTickV2
    \/ AdvanceAttrV2

SpecAttrV2 == InitAttrV2 /\ [][NextAttrV2]_vars

----------------------------------------------------------------------------
(* The trigger sequencer over a registry that detection has filled, with    *)
(* entity events arriving while a call is in flight                         *)

\* a second settled pearl of alice, in a chamber without a lever or button nearby
LoadedStasisFar ==
    [owner |-> "alice", pos |-> snapToBlock(PFly), createdAt |-> 200, lastSeenAt |-> 900,
     lastMoveAt |-> 200, lastPos |-> <<PFly>>, entityId |-> 0, status |-> "stasis",
     lastRawAt |-> 700, stableSince |-> 0, stablePos |-> <<>>, missingSince |-> 0]

KeyStasisFar == PearlKey("spawn", 3, 200)

BotFar == Vec(950, 6400, -350)

TriggerScenes ==
    {[reg |-> NoPearls, ents |-> <<>>],
     [reg |-> [pearls |-> (KeyStasis :> LoadedStasis), order |-> <<KeyStasis>>],
      ents |-> (2 :> Pearl(PRest))],
     [reg |-> [pearls |-> (KeyAirborne :> LoadedAirborne), order |-> <<KeyAirborne>>],
      ents |-> (1 :> Pearl(PFly))],
     [reg |-> [pearls |-> (KeyStasis :> LoadedStasis) @@ (KeyAirborne :> LoadedAirborne),
               order |-> <<KeyStasis, KeyAirborne>>],
      ents |-> (1 :> Pearl(PFly)) @@ (2 :> Pearl(PRest))],
     [reg |-> [pearls |-> (KeyStasisFar :> LoadedStasisFar) @@ (KeyStasis :> LoadedStasis),
               order |-> <<KeyStasisFar, KeyStasis>>],
      ents |-> (2 :> Pearl(PRest))]}

InitTrigger ==
    /\ \E scene \in TriggerScenes : InitFrom(scene)
    /\ botPos \in {BotHome, BotFar}

TriggerNext ==
    \/ \E i \in 1..Len(PlayerNames) : TriggerStart(PlayerNames[i])
    \/ \E o \in Outcomes : Nav3dEnd(o)
    \/ \E o \in Outcomes : NavXZEnd(o)
    \/ \E o \in Outcomes : StepEnd(o)
    \/ WebhookEnd
    \/ TriggerReturn
    \/ \E i \in 1..Len(PlayerNames) : OtherRequest(PlayerNames[i])
    \/ \E e \in EntityIds : \E p \in PositionsOf(e) : EntitySpawn(e, p)
    \/ \E e \in EntityIds : \E p \in PositionsOf(e) : EntityMoved(e, p)
    \/ \E e \in EntityIds : EntityGone(e)

SpecTrigger == InitTrigger /\ [][TriggerNext]_vars

\* every awaited call settles: pathfinder.goto resolves, rejects or loses the race
\* against the 8 s timer of gotoNear / gotoNearXZ; lookAt, waitForTicks, activateBlock
\* and sendWebhook settle
SpecTriggerFair ==
    /\ SpecTrigger
    /\ WF_vars(\E o \in Outcomes : Nav3dEnd(o))
    /\ WF_vars(\E o \in Outcomes : NavXZEnd(o))
    /\ WF_vars(\E o \in Outcomes : StepEnd(o))
    /\ WF_vars(WebhookEnd)

----------------------------------------------------------------------------
(* general.ts: auto-eat and anti-AFK beside the trigger sequencer *)

\* a control action goes out to the bot; the flag at that moment is kept with it
Issue(g, action) == [g EXCEPT !.issued = g.issued \cup {<<action, busy>>}]

\* the health handler: not busy, not eating, food or health low; eating is latched and
\* eatEnchantedGapple runs to its first await: the flag is read once, then either no
\* food is found (it returns and the latch is released) or bot.equip is called
Health(hasFood) ==
    /\ ~busy
    /\ ~general.eating
    /\ general' = IF hasFood
                  THEN [Issue(general, "equip") EXCEPT !.eating = TRUE, !.pc = "equip"]
                  ELSE general
    /\ UNCHANGED <<now, pearls, order, entityToKey, entities, lastSwing, rescoreTimers,
                   saveTimer, delayedScanAt, nextTickAt, trig, busy, ctrl, botPos, events,
                   disk, prev, hist>>

\* bot.equip settles: on success sleep(150) starts; a rejection is logged by the
\* handler, whose finally releases the latch
EquipEnd(outcome) ==
    /\ general.pc = "equip"
    /\ general' = IF outcome = "ok"
                  THEN [general EXCEPT !.pc = "sleep"]
                  ELSE [general EXCEPT !.pc = "idle", !.eating = FALSE]
    /\ UNCHANGED <<now, pearls, order, entityToKey, entities, lastSwing, rescoreTimers,
                   saveTimer, delayedScanAt, nextTickAt, trig, busy, ctrl, botPos, events,
                   disk, prev, hist>>

\* sleep(150) is over: bot.activateItem(), then the first poll finds nothing eaten yet
\* and sleep(200) starts
SleepEnd ==
    /\ general.pc = "sleep"
    /\ general' = [Issue(general, "activateItem") EXCEPT !.pc = "poll"]
    /\ UNCHANGED <<now, pearls, order, entityToKey, entities, lastSwing, rescoreTimers,
                   saveTimer, delayedScanAt, nextTickAt, trig, busy, ctrl, botPos, events,
                   disk, prev, hist>>

\* a sleep(200) of the poll loop is over and the loop ends, because food or health went
\* up or because 15 s have passed: bot.deactivateItem(), and the latch is released
PollEnd ==
    /\ general.pc = "poll"
    /\ general' = [Issue(general, "deactivateItem") EXCEPT !.pc = "idle", !.eating = FALSE]
    /\ UNCHANGED <<now, pearls, order, entityToKey, entities, lastSwing, rescoreTimers,
                   saveTimer, delayedScanAt, nextTickAt, trig, busy, ctrl, botPos, events,
                   disk, prev, hist>>

\* the anti-AFK interval: not busy and not eating, so the arm is swung
AntiAfk ==
    /\ ~busy
    /\ ~general.eating
    /\ general' = Issue(general, "swingArm")
    /\ UNCHANGED <<now, pearls, order, entityToKey, entities, lastSwing, rescoreTimers,
                   saveTimer, delayedScanAt, nextTickAt, trig, busy, ctrl, botPos, events,
                   disk, prev, hist>>

GeneralNext ==
    \/ \E i \in 1..Len(PlayerNames) : TriggerStart(PlayerNames[i])
    \/ \E o \in Outcomes : Nav3dEnd(o)
    \/ \E o \in Outcomes : NavXZEnd(o)
    \/ \E o \in Outcomes : StepEnd(o)
    \/ WebhookEnd
    \/ TriggerReturn
    \/ \E hasFood \in BOOLEAN : Health(hasFood)
    \/ \E o \in Outcomes : EquipEnd(o)
    \/ SleepEnd
    \/ PollEnd
    \/ AntiAfk

\* the housekeeping of general.ts beside the trigger sequencer
SpecGeneral == InitTrigger /\ [][GeneralNext]_vars

----------------------------------------------------------------------------
(* The state file under the debounced save and the HTTP route *)

Saved(variant, outcome) ==
    IF variant = "rename"
    THEN saveState(disk, [pearls |-> pearls, order |-> order], outcome)
    ELSE saveStateInPlace(disk, [pearls |-> pearls, order |-> order], outcome)

\* the debounced save fires: the timer is cleared, saveState runs, and what it throws
\* is caught and logged
SaveRun(variant, outcome) ==
    /\ saveTimer # 0
    /\ now >= saveTimer
    /\ saveTimer' = 0
    /\ disk' = [Saved(variant, outcome) EXCEPT
                  !.logged = IF outcome = "throw" THEN disk.logged + 1 ELSE disk.logged]
    /\ UNCHANGED <<now, pearls, order, entityToKey, entities, lastSwing, rescoreTimers,
                   delayedScanAt, nextTickAt, trig, busy, ctrl, botPos, events, general,
                   prev, hist>>

\* POST /trigger/player after triggerPearl has settled: on success saveState runs and
\* 200 is sent, all inside the try; whatever is thrown there is answered with 500
HttpReturn(variant, outcome) ==
    /\ trig.pc \in {"done", "failed"}
    /\ trig.pc = "failed" => outcome = "ok"
    /\ trig' = [IdleTrig EXCEPT !.n = trig.n,
                                !.served = IF trig.pc = "done"
                                           THEN trig.served \cup {trig.pearlId}
                                           ELSE trig.served,
                                !.other = trig.other, !.otherTarget = trig.otherTarget]
    /\ disk' = IF trig.pc = "failed"
               THEN [disk EXCEPT !.reply = 500]
               ELSE [Saved(variant, outcome) EXCEPT
                       !.reply = CASE outcome = "ok"    -> 200
                                   [] outcome = "throw" -> 500
                                   [] OTHER             -> disk.reply]
    /\ UNCHANGED <<now, pearls, order, entityToKey, entities, lastSwing, rescoreTimers,
                   saveTimer, delayedScanAt, nextTickAt, busy, ctrl, botPos, events,
                   general, prev, hist>>

\* the clock reaches the instant the pending save is due
AdvanceDisk == AdvanceIn({saveTimer} \ {0})

\* a handler runs only while the process is up
DiskNext(variant) ==
    \/ disk.up /\ \E i \in 1..Len(PlayerNames) : TriggerStart(PlayerNames[i])
    \/ disk.up /\ \E o \in Outcomes : Nav3dEnd(o)
    \/ disk.up /\ \E o \in Outcomes : NavXZEnd(o)
    \/ disk.up /\ \E o \in Outcomes : StepEnd(o)
    \/ disk.up /\ WebhookEnd
    \/ disk.up /\ \E o \in SaveOutcomes : HttpReturn(variant, o)
    \/ disk.up /\ \E e \in EntityIds : \E p \in PositionsOf(e) : EntitySpawn(e, p)
    \/ disk.up /\ \E e \in EntityIds : EntityGone(e)
    \/ disk.up /\ \E o \in SaveOutcomes : SaveRun(variant, o)
    \/ disk.up /\ AdvanceDisk

\* saving with the saveState that renames a temp file
SpecDisk == InitTrigger /\ [][DiskNext("rename")]_vars

\* saving with the earlier saveState
SpecDiskInPlace == InitTrigger /\ [][DiskNext("inplace")]_vars

----------------------------------------------------------------------------
(* The action-block search around records laid all over the second chamber *)

FindXs == {3700, 3850, 4100, 4150, 4300, 4550, 4800}

FindYs == {6000, 6150, 6400, 6700, 6950}

FindZs == {-450, -100, -50, 0, 250, 600}

\* state.json holds one settled pearl of alice, somewhere in or around the chamber
InitFind ==
    /\ \E x \in FindXs : \E y \in FindYs : \E z \in FindZs :
          InitFrom([reg  |-> [pearls |-> (KeyStasis :>
                                           [LoadedStasis EXCEPT !.pos = Vec(x, y, z)]),
                             order  |-> <<KeyStasis>>],
                    ents |-> <<>>])
    /\ botPos = BotHome

FindNext ==
    \/ \E i \in 1..Len(PlayerNames) : TriggerStart(PlayerNames[i])
    \/ \E o \in Outcomes : Nav3dEnd(o)
    \/ \E o \in Outcomes : NavXZEnd(o)
    \/ \E o \in Outcomes : StepEnd(o)
    \/ WebhookEnd
    \/ TriggerReturn

SpecFind == InitFind /\ [][FindNext]_vars

\* the sequencer with requests that overlap a call in flight
OverlapNext ==
    \/ \E i \in 1..Len(PlayerNames) : TriggerStart(PlayerNames[i])
    \/ \E o \in Outcomes : Nav3dEnd(o)
    \/ \E o \in Outcomes : NavXZEnd(o)
    \/ \E o \in Outcomes : StepEnd(o)
    \/ WebhookEnd
    \/ TriggerReturn
    \/ \E i \in 1..Len(PlayerNames) : OtherRequest(PlayerNames[i])
    \/ \E i \in 1..Len(PlayerNames) : OtherStart(PlayerNames[i])
    \/ \E o \in Outcomes : OtherEnd(o)

SpecOverlap == InitTrigger /\ [][OverlapNext]_vars

----------------------------------------------------------------------------
(* Properties of the trigger sequencer *)

\* C1: when a call of triggerPearl has completed successfully, the record it selected
\* is no longer in the registry (so that a following call for a player with no other
\* record finds nothing)
C1_SelectedRecordConsumed ==
    trig.pc = "done" => trig.pearlId \notin DOMAIN pearls

\* C2: the record that triggerPearl selects for a player has status stasis at the
\* moment it is selected; a record that is airborne is never selected
C2_SelectsOnlyStasis ==
    trig.pearlId # <<>> => trig.picked = "stasis"

----------------------------------------------------------------------------
(* Properties of detection *)

\* the records that some handler turns from airborne to stasis in this step
PromotedNow == {k \in DOMAIN pearls \cap DOMAIN pearls' :
                  pearls[k].status = "airborne" /\ pearls'[k].status = "stasis"}

\* C3: whenever a record's status changes from airborne to stasis, the record is at
\* least MIN_AGE_MS old, its stability timer is set and has run for at least
\* SETTLE_MS, and its last disqualifying sample is at least SETTLE_MS back
C3_PromotionGuard ==
    [][\A k \in PromotedNow :
          /\ now - pearls'[k].createdAt >= MIN_AGE_MS
          /\ pearls'[k].stableSince # 0
          /\ now - pearls'[k].stableSince >= SETTLE_MS
          /\ now - pearls'[k].lastMoveAt >= SETTLE_MS]_vars

\* a record of this session that saw a disqualifying sample and was promoted later
C3_Witness ==
    \E k \in DOMAIN pearls :
        /\ pearls[k].status = "stasis"
        /\ pearls[k].createdAt >= StartAt
        /\ pearls[k].lastMoveAt > pearls[k].createdAt

\* C4: a record created at t0 whose last disqualifying sample is at t0 + 2400 and whose
\* entity has rested in the world since then is stasis once t0 + 3000 has passed
C4_StasisAtThreeSeconds ==
    \A k \in DOMAIN pearls :
        LET rec == pearls[k]
        IN  ( /\ rec.createdAt >= StartAt
              /\ rec.lastMoveAt = rec.createdAt + 2400
              /\ rec.entityId \in DOMAIN entities
              /\ hist.since[rec.entityId] <= rec.createdAt + 2400
              /\ now > rec.createdAt + 3000 )
            => rec.status = "stasis"

\* C5: after a reconciliation tick, a record whose entity is loaded, for which no move
\* event was ever delivered, which is at least MIN_AGE_MS old and whose entity has
\* rested for SETTLE_MS, is stasis
C5_TickPromotesStationary ==
    [][ReconcileTick =>
          \A k \in hist'.noMove :
              ( /\ pearls'[k].entityId \in DOMAIN entities
                /\ now - pearls'[k].createdAt >= MIN_AGE_MS
                /\ now - hist.since[pearls'[k].entityId] >= SETTLE_MS )
              => pearls'[k].status = "stasis"]_vars

\* C6: when entityGone arrives for an indexed airborne record that passes the promotion
\* guard, the record stays in the registry, as stasis and without its entity id
C6_LastChancePromotion ==
    [][\A e \in DOMAIN entityToKey :
          ( /\ EntityGone(e)
            /\ entityToKey[e] \in DOMAIN pearls
            /\ CanPromote(pearls[entityToKey[e]], now) )
          => /\ entityToKey[e] \in DOMAIN pearls'
             /\ pearls'[entityToKey[e]].status = "stasis"
             /\ pearls'[entityToKey[e]].entityId = 0]_vars

\* C7: an entityGone event never deletes a record whose status is stasis
C7_GoneKeepsStasis ==
    [][\A e \in EntityIds :
          EntityGone(e) =>
              \A k \in DOMAIN pearls : pearls[k].status = "stasis" => k \in DOMAIN pearls']_vars

\* the entity ids that more than one record of the registry carries
SharedEntityIds ==
    {e \in EntityIds : \E k1, k2 \in DOMAIN pearls :
        k1 # k2 /\ pearls[k1].entityId = e /\ pearls[k2].entityId = e}

\* C8: at every moment at most one record of the registry carries a given entity id
C8_OneRecordPerEntity == SharedEntityIds = {}

\* the records that this step takes out of the registry
DeletedNow == DOMAIN pearls \ DOMAIN pearls'

C10_OwnerKept ==
    [][\A k \in DOMAIN pearls \cap DOMAIN pearls' :
          pearls[k].owner # "unknown" => pearls'[k].owner = pearls[k].owner]_vars

\* a record of this session with a named owner that handlers have refreshed since
C10_Witness ==
    \E k \in DOMAIN pearls :
        /\ pearls[k].owner # "unknown"
        /\ pearls[k].createdAt >= StartAt
        /\ pearls[k].lastSeenAt > pearls[k].createdAt

----------------------------------------------------------------------------
(* Properties of the stasis position *)

\* C13: while a record is stasis, no step (spawn or scan refresh, move event,
\* reconciliation tick) changes its pos; at most lastPos, lastSeenAt and the
\* missing timer of the record change
C13_StasisPosFrozen ==
    [][\A k \in DOMAIN pearls \cap DOMAIN pearls' :
          pearls[k].status = "stasis" =>
              /\ pearls'[k].pos = pearls[k].pos
              /\ pearls'[k] = [pearls[k] EXCEPT !.lastPos = pearls'[k].lastPos,
                                                !.lastSeenAt = pearls'[k].lastSeenAt,
                                                !.missingSince = pearls'[k].missingSince]]_vars

\* a stasis record whose entity was seen later at a raw position in another block
C13_Witness ==
    \E k \in DOMAIN pearls :
        /\ pearls[k].status = "stasis"
        /\ pearls[k].lastPos # <<>>
        /\ snapToBlock(pearls[k].lastPos[1]) # pearls[k].pos
        /\ pearls[k].lastSeenAt = now

\* b is the component-wise floor of the raw position p: whole blocks (multiples of
\* 100 in hundredths), at most p and less than one block below it
IsFloorOf(b, p) ==
    /\ b.x % 100 = 0 /\ b.x <= p.x /\ p.x < b.x + 100
    /\ b.y % 100 = 0 /\ b.y <= p.y /\ p.y < b.y + 100
    /\ b.z % 100 = 0 /\ b.z <= p.z /\ p.z < b.z + 100

\* C14: when a record is promoted, a stable position is remembered for it, which is
\* the one remembered before the step or the sample of this very move event; pos
\* becomes its component-wise floor and lastPos holds it unsnapped, whatever raw
\* position a refresh had written into the record
C14_PromotedAtStablePos ==
    [][\A k \in PromotedNow :
          LET sp == pearls'[k].stablePos
              e  == pearls[k].entityId
          IN  /\ sp # <<>>
              /\ \/ sp = pearls[k].stablePos
                 \/ /\ e \in DOMAIN entities'
                    /\ sp = <<entities'[e].position>>
                    /\ pearls'[k].lastRawAt = now
              /\ IsFloorOf(pearls'[k].pos, sp[1])
              /\ pearls'[k].lastPos = sp]_vars

\* a record promoted at its stable position PRest by a tick that had refreshed it
\* from its entity at PFly, where a spawn refresh after the last sample had put it
C14_Witness ==
    \E k \in DOMAIN pearls :
        /\ pearls[k].status = "stasis"
        /\ pearls[k].entityId \in DOMAIN entities
        /\ entities[pearls[k].entityId].position = PFly
        /\ hist.since[pearls[k].entityId] > pearls[k].lastRawAt
        /\ pearls[k].lastPos = <<PRest>>
        /\ pearls[k].pos = snapToBlock(PRest)

----------------------------------------------------------------------------
(* Properties of attribution *)

Players == {PlayerNames[i] : i \in 1..Len(PlayerNames)}

\* player u has a recorded swing, not older than window at t, and stands within
\* CANDIDATE_RADIUS of p
Eligible(u, p, t, window) ==
    /\ lastSwing[PlayerEntity(u).id] # 0
    /\ t - lastSwing[PlayerEntity(u).id] <= window
    /\ DistSqC(PlayerEntity(u).position, p)
         <= (CANDIDATE_RADIUS * 100) * (CANDIDATE_RADIUS * 100)

\* C11: pickOwnerForPearl(p, now) returns only a player who has a recorded swing not
\* older than SWING_WINDOW_MS and stands within CANDIDATE_RADIUS of p, and it returns
\* "unknown" exactly when there is no such player
C11_OwnerIsEligible ==
    \A p \in AttrPositions :
        \A r \in {pickOwnerForPearl(p, now)} :
            /\ r # "unknown" => r \in Players /\ Eligible(r, p, now, SWING_WINDOW_MS)
            /\ r = "unknown" <=> \A u \in Players : ~Eligible(u, p, now, SWING_WINDOW_MS)

\* a pearl was attributed to bob although alice, out of reach of it, swung at the
\* very instant it spawned
C11_Witness ==
    \E k \in DOMAIN pearls :
        /\ pearls[k].pos = PEdge
        /\ pearls[k].owner = "bob"
        /\ lastSwing[PlayerEntity("alice").id] = pearls[k].createdAt

\* 4 * recency + 1.5 * facing + closeness of a player, in thousandths
ScoreOf(u, p, t, window) ==
    LET ent == PlayerEntity(u)
        age == t - lastSwing[ent.id]
    IN  4 * clampMilli(1000 - (1000 * age) \div window)
        + (3 * facingMilli(lookDir(ent.yawQ, ent.pitchQ), vecTo(ent.position, p))) \div 2
        + 10000000 \div (10000 + DistSqC(ent.position, p))

\* Scenario D: alice swung 50 ms ago and looks at the pearl, bob swung 1900 ms ago
\* and looks away from it; both are within the candidate radius of PFly
ScenarioD ==
    /\ lastSwing[PlayerEntity("alice").id] = now - 50
    /\ lastSwing[PlayerEntity("bob").id] = now - 1900

\* C12: the player returned by pickOwnerForPearl has a maximal score
\* 4 * recency + 1.5 * facing + closeness among the candidates, for the window of
\* either variant; and in Scenario D, with the window of 2000 ms, alice scores
\* strictly higher than bob and alice is returned.
C12_MaxScoreWins ==
    /\ \A p \in AttrPositions, w \in {SWING_WINDOW_MS, V2_SWING_WINDOW_MS} :
           \A r \in {pickOwnerW(p, now, w)} :
               r # "unknown" =>
                   /\ Eligible(r, p, now, w)
                   /\ \A u \in Players \ {r} :
                          Eligible(u, p, now, w) => ScoreOf(r, p, now, w) >= ScoreOf(u, p, now, w)
    /\ ScenarioD =>
           /\ Eligible("alice", PFly, now, V2_SWING_WINDOW_MS)
           /\ Eligible("bob", PFly, now, V2_SWING_WINDOW_MS)
           /\ ScoreOf("alice", PFly, now, V2_SWING_WINDOW_MS)
                  > ScoreOf("bob", PFly, now, V2_SWING_WINDOW_MS)
           /\ pickOwnerForPearlV2(PFly, now) = "alice"

\* the spawn handler attributed a pearl at PFly to alice in Scenario D
C12_Witness ==
    /\ ScenarioD
    /\ \E k \in DOMAIN pearls :
           /\ pearls[k].pos = PFly /\ pearls[k].createdAt = now
           /\ pearls[k].owner = "alice"

----------------------------------------------------------------------------
(* Properties of the trigger sequence: errors, navigation, control state *)

\* the positions at which an entry of names stands in the call log l
Idx(l, names) == {i \in 1..Len(l) : l[i] \in names}

NavCalls == {"gotoNear", "gotoNearXZ"}

ActCalls == {"gotoNear", "gotoNearXZ", "lookAt", "activateBlock"}

\* the levers and buttons of the world within radius blocks, on every axis, of the
\* block that holds position p
ActionBlocksNear(p, radius) ==
    {b \in DOMAIN WorldBlocks :
        /\ WorldBlocks[b] \in {<<"lever">>, <<"oak", "button">>}
        /\ \E q \in {snapToBlock(p)} :
               /\ b.x * 100 - q.x \in (-radius * 100)..(radius * 100)
               /\ b.y * 100 - q.y \in (-radius * 100)..(radius * 100)
               /\ b.z * 100 - q.z \in (-radius * 100)..(radius * 100)}

\* C15: a call ends with NotFound only for a player who owns no record, and with
\* NoActionBlock only when no lever or button lies within ACTION_RADIUS of the picked
\* record's coordinate; no step of such a call changes the registry or the index, and
\* the call issues no navigation, look-at or interact call
C15_EarlyFailureLeavesNoTrace ==
    [][/\ (trig.pc = "idle" /\ trig'.err = "NotFound") =>
              \A k \in DOMAIN pearls : pearls[k].owner # trig'.player
       /\ (trig.pc = "idle" /\ trig'.err = "NoActionBlock") =>
              /\ trig'.pearlId \in DOMAIN pearls
              /\ ActionBlocksNear(pearls[trig'.pearlId].pos, ACTION_RADIUS) = {}
       /\ (trig' # trig /\ ({trig.err, trig'.err} \cap {"NotFound", "NoActionBlock"} # {})) =>
              /\ pearls' = pearls /\ order' = order /\ entityToKey' = entityToKey
              /\ Idx(trig.log, ActCalls) = {} /\ Idx(trig'.log, ActCalls) = {}
              /\ trig'.pc \in {"webhook", "failed", "idle"}]_vars

\* a call for a record without a lever or button nearby has failed with NoActionBlock
C15_Witness ==
    /\ trig.pc = "failed" /\ trig.err = "NoActionBlock"
    /\ trig.pearlId = KeyStasisFar

\* C16: when lookAt, a tick wait or activateBlock fails, the catch block resets the
\* controls and then starts the failure notification, with nothing in between and
\* nothing after; the call then fails with that error; and no step of the failing
\* call changes the registry, so the selected record stays as it is
C16_InteractionFailurePropagated ==
    [][/\ (trig.pc \in {"xzwait", "look", "wait1", "activate", "wait2"}
             /\ trig'.pc \notin {trig.pc, "look", "wait1", "activate", "wait2", "done"}) =>
              /\ trig'.pc = "webhook" /\ trig'.err = "InteractionFailure"
              /\ trig'.log = trig.log \o <<"reset", "webhook">>
              /\ ctrl' = "clean"
       /\ (trig.pc = "webhook" /\ trig.err = "InteractionFailure" /\ trig'.pc # "webhook") =>
              /\ trig'.pc = "failed" /\ trig'.err = trig.err /\ trig'.log = trig.log
              /\ trig'.pearlId = trig.pearlId
       /\ (trig' # trig /\ "InteractionFailure" \in {trig.err, trig'.err}) =>
              /\ pearls' = pearls /\ order' = order /\ entityToKey' = entityToKey]_vars

\* a call has failed at activateBlock and its record is in the registry
C16_Witness ==
    /\ trig.pc = "failed" /\ trig.err = "InteractionFailure"
    /\ trig.log[Len(trig.log) - 2] = "activateBlock"
    /\ trig.pearlId \in DOMAIN pearls

\* C17: when the 3D approach fails, the horizontal approach is started; when that
\* fails too, the call waits two ticks and, that wait done, goes on to lookAt; no
\* navigation attempt ends in the outer catch; a call that returns has
\* issued lookAt and activateBlock, in this order, after its last navigation attempt
C17_NavigationIsBestEffort ==
    [][/\ (trig.pc = "nav3d" /\ trig'.pc # "nav3d") =>
              /\ trig'.pc \in {"look", "navxz"}
              /\ trig'.pc = "navxz" => trig'.log[Len(trig'.log)] = "gotoNearXZ"
       /\ (trig.pc = "navxz" /\ trig'.pc # "navxz") =>
              /\ trig'.pc \in {"look", "xzwait"}
              /\ trig'.err = ""
       /\ (trig.pc = "xzwait" /\ trig'.pc \notin {"xzwait", "webhook"}) => trig'.pc = "look"
       /\ (trig.pc # "look" /\ trig'.pc = "look") => trig'.log[Len(trig'.log)] = "lookAt"
       /\ (trig.pc # "done" /\ trig'.pc = "done") =>
              \E j \in Idx(trig'.log, {"lookAt"}), a \in Idx(trig'.log, {"activateBlock"}) :
                  /\ j < a
                  /\ \A i \in Idx(trig'.log, NavCalls) : i < j]_vars

\* a call has returned after both of its navigation attempts had failed
C17_Witness ==
    /\ trig.pc = "done"
    /\ trig.log = <<"reset", "gotoNear", "reset", "reset", "reset", "gotoNearXZ",
                    "reset", "reset", "waitForTicks", "reset", "lookAt", "waitForTicks",
                    "activateBlock", "waitForTicks">>

\* C18: in the call log, a reset stands directly before every navigation attempt and
\* directly after every attempt that has ended; a reset stands directly before
\* lookAt, and it is a further one than the reset that ended the last attempt; and
\* from that reset to activateBlock no navigation attempt is started, while the
\* controls stay released
C18_ResetsAroundNavigation ==
    LET l    == trig.log
        navs == Idx(l, NavCalls)
    IN  /\ \A i \in navs : i > 1 /\ l[i - 1] = "reset"
        /\ \A i \in navs : i < Len(l) => l[i + 1] = "reset"
        /\ \A j \in Idx(l, {"lookAt"}) :
               /\ j > 1 /\ l[j - 1] = "reset"
               /\ \A i \in navs : i < j
               /\ \A i \in navs :
                      (\A i2 \in navs : i2 <= i) =>
                          Cardinality({r \in (i + 1)..(j - 1) : l[r] = "reset"}) >= 2
        /\ \A a \in Idx(l, {"activateBlock"}) :
               \E j \in Idx(l, {"lookAt"}) :
                   j < a /\ \A r \in j..a : l[r] \notin NavCalls \cup {"reset"}
        /\ trig.pc \in {"look", "wait1", "activate", "wait2"} => ctrl = "clean"

\* a call has interacted after its 3D approach failed and its horizontal one succeeded
C18_Witness ==
    /\ trig.pc = "activate"
    /\ trig.log = <<"reset", "gotoNear", "reset", "reset", "reset", "gotoNearXZ",
                    "reset", "reset", "lookAt", "waitForTicks", "activateBlock">>

\* C19: when a call has returned or thrown, the controls are released and no goal is
\* set, and in its log a reset stands after the last navigation attempt; a call that
\* throws has reset in its catch block
C19_ExitLeavesControlsReleased ==
    trig.pc \in {"done", "failed"} =>
        /\ ctrl = "clean"
        /\ \A i \in Idx(trig.log, NavCalls) : \E r \in (i + 1)..Len(trig.log) : trig.log[r] = "reset"
        /\ trig.pc = "failed" =>
               /\ trig.err \in {"NotFound", "NoActionBlock", "InteractionFailure"}
               /\ Len(trig.log) >= 2
               /\ trig.log[Len(trig.log) - 1] = "reset"
               /\ trig.log[Len(trig.log)] = "webhook"

\* a call has thrown at its first tick wait after a successful 3D approach
C19_Witness ==
    /\ trig.pc = "failed"
    /\ trig.log = <<"reset", "gotoNear", "reset", "reset", "lookAt", "waitForTicks",
                    "reset", "webhook">>
    /\ ctrl = "clean"

\* C20: at every suspension point of a call of triggerPearl the flag is true, also
\* when a second request has started or finished in the meantime
C20_FlagHeldWhileSuspended ==
    trig.pc \in {"nav3d", "navxz", "xzwait", "look", "wait1", "activate", "wait2", "webhook"}
        => busy = TRUE

----------------------------------------------------------------------------
(* Properties of the record life cycle, the timers and the index *)

\* C26: a record that is stasis stays stasis as long as it is in the registry, a
\* record enters the registry airborne or (by a last-chance promotion) stasis, and
\* after a handler has finished no record of the registry has status gone
C26_StatusOnlyMovesForward ==
    [][\A k \in DOMAIN pearls' :
          /\ pearls'[k].status \in {"airborne", "stasis"}
          /\ (k \in DOMAIN pearls /\ pearls[k].status = "stasis") =>
                 pearls'[k].status = "stasis"]_vars

\* C27: when a delayed re-attribution timer fires for a record that is no longer in
\* the registry, or whose owner is no longer "unknown", the callback leaves the
\* registry, its key order, the index and the save timer as they are
C27_StaleRescoreIsNoOp ==
    [][RescoreFire =>
          \A tm \in rescoreTimers \ rescoreTimers' :
              (tm.key \notin DOMAIN pearls \/ pearls[tm.key].owner # "unknown") =>
                  /\ pearls' = pearls
                  /\ order' = order
                  /\ entityToKey' = entityToKey
                  /\ saveTimer' = saveTimer]_vars

\* the timer of a record that was removed in the meantime is due, no save pending
C27_Witness ==
    \E tm \in rescoreTimers :
        /\ now >= tm.at
        /\ tm.key \notin DOMAIN pearls
        /\ saveTimer = 0

\* the keys of the airborne records that the move event of entity e is applied to
MovedAirborne(e) ==
    {k \in DOMAIN pearls : /\ e \in DOMAIN entityToKey
                           /\ entityToKey[e] = k
                           /\ pearls[k].status = "airborne"}

\* a sample at p, dtMs after the last one, of a record at q moves by more than
\* MOVE_EPS (0.15 block) or faster than SPEED_EPS (0.15 block per second)
Disqualifies(q, p, dtMs) ==
    \/ DistSqC(q, p) > MOVE_EPS_C * MOVE_EPS_C
    \/ /\ dtMs < 1000
       /\ DistSqC(q, p) * 1000000 > SPEED_EPS_C * SPEED_EPS_C * dtMs * dtMs

\* C28: a move event for an airborne record, whose displacement is taken from the
\* record's pos and whose time from the record's last sample: a disqualifying
\* sample clears stableSince and stablePos and sets lastMoveAt to now; any other
\* sample keeps a running timer's start, starts the timer at now when none runs,
\* sets stablePos to the new position and leaves lastMoveAt
C28_SampleClassified ==
    [][\A e \in EntityIds : \A p \in PositionsOf(e) :
          EntityMoved(e, p) =>
              \A k \in MovedAirborne(e) :
                  /\ k \in DOMAIN pearls'
                  /\ pearls'[k].lastRawAt = now
                  /\ IF Disqualifies(pearls[k].pos, p, Max(1, now - pearls[k].lastRawAt))
                     THEN /\ pearls'[k].stableSince = 0
                          /\ pearls'[k].stablePos = <<>>
                          /\ pearls'[k].lastMoveAt = now
                     ELSE /\ pearls'[k].stableSince =
                                 IF pearls[k].stableSince = 0 THEN now
                                 ELSE pearls[k].stableSince
                          /\ pearls'[k].stablePos = <<p>>
                          /\ pearls'[k].lastMoveAt = pearls[k].lastMoveAt]_vars

\* an airborne record whose timer kept its start over a later qualifying sample
C28_Witness ==
    \E k \in DOMAIN pearls :
        /\ pearls[k].status = "airborne"
        /\ pearls[k].stableSince # 0
        /\ pearls[k].lastRawAt > pearls[k].stableSince
        /\ pearls[k].stablePos # <<>>

\* C29: a move event for an airborne record with a running stability timer, at a
\* position more than MOVE_EPS away from the position of the previous move sample
\* (which stablePos holds while the timer runs), resets the timer, whatever a
\* reconciliation tick or a repeated spawn event wrote into pos in between
C29_DisplacementFromLastSample ==
    [][\A e \in EntityIds : \A p \in PositionsOf(e) :
          EntityMoved(e, p) =>
              \A k \in MovedAirborne(e) :
                  ( /\ pearls[k].stableSince # 0
                    /\ pearls[k].stablePos # <<>>
                    /\ DistSqC(pearls[k].stablePos[1], p) > MOVE_EPS_C * MOVE_EPS_C )
                  => pearls'[k].stableSince = 0]_vars

\* C30: after install and after every handler the index and the registry agree:
\* every index entry e -> k points to an existing record k whose entityId is e, and
\* every record with a numeric entityId e is the target of the index entry for e
C30_IndexMatchesRegistry ==
    /\ \A e \in DOMAIN entityToKey :
           /\ entityToKey[e] \in DOMAIN pearls
           /\ pearls[entityToKey[e]].entityId = e
    /\ \A k \in DOMAIN pearls :
           pearls[k].entityId # 0 =>
               /\ pearls[k].entityId \in DOMAIN entityToKey
               /\ entityToKey[pearls[k].entityId] = k

\* a record was deleted, and a record inserted in this session is indexed
C30_Witness ==
    /\ \E e \in DOMAIN entityToKey :
           /\ entityToKey[e] \in DOMAIN pearls
           /\ pearls[entityToKey[e]].createdAt >= StartAt
    /\ KeyAirborne \notin DOMAIN pearls
    /\ hist.reaped # {}

\* C23: a save timer is armed only when none is pending, for 150 ms after that call;
\* calls made while it is pending leave it alone; it is cleared only by the save
\* itself, exactly when the timer is due and not before; so after every handler that
\* called scheduleSave a save is due within 150 ms, time does not pass that instant
\* with the save still pending, and the save that is due does run
C23_SaveDebounced ==
    /\ [][ /\ (saveTimer = 0 /\ saveTimer' # 0) => saveTimer' = now + SAVE_DEBOUNCE_MS
           /\ (saveTimer # 0 /\ saveTimer' # saveTimer) =>
                  (now = saveTimer /\ saveTimer' = 0 /\ pearls' = pearls)
           /\ saveTimer' # 0 => (now' <= saveTimer' /\ saveTimer' <= now' + SAVE_DEBOUNCE_MS)
           /\ DOMAIN pearls' # DOMAIN pearls => saveTimer' # 0 ]_vars
    /\ (saveTimer # 0 /\ now = saveTimer) ~> (saveTimer = 0)

\* a record is inserted or removed while a save is pending since an earlier instant
C23_Witness ==
    /\ saveTimer # 0
    /\ saveTimer < now + SAVE_DEBOUNCE_MS
    /\ now < saveTimer
    /\ \E k \in DOMAIN pearls : pearls[k].createdAt = now

----------------------------------------------------------------------------
(* Properties of the in-progress flag and the state file *)

\* C21: at most one trigger sequence is in flight: while a call of triggerPearl is
\* suspended in its approach-and-interact sequence, no second call is in its own
C21_OneSequenceInFlight ==
    ~(trig.pc \in Suspended /\ trig.other \in Suspended)

\* C22: no control action of the auto-feed or the anti-idle routine (equip,
\* activateItem, deactivateItem, swingArm) is issued while the flag is set
C22_NoControlWhileFlagSet ==
    \A a \in general.issued : a[2] = FALSE

\* C24: whatever step saveState has got to, and also when the process dies between
\* two of its steps, the file at STATE_PATH is there and holds a complete state
C24_StateFileNeverPartial ==
    disk.file # <<>> /\ disk.file[1].whole

\* C25: a save that throws is logged and harms nothing: the registry is as it was, the
\* process is up, no timer is left pending so that the next call schedules a save; and
\* a trigger that succeeded is answered with 200, whatever the save after it did
C25_FailedSaveIsHarmless ==
    [][ /\ disk'.logged # disk.logged =>
               /\ pearls' = pearls /\ order' = order /\ entityToKey' = entityToKey
               /\ saveTimer' = 0
               /\ disk'.up
        /\ (trig.pc = "done" /\ trig'.pc = "idle" /\ disk'.up) => disk'.reply = 200 ]_vars

----------------------------------------------------------------------------
(* Reconnect: createAndBindBot destroys the bot instance and, when the new  *)
(* one has spawned, calls installPearlDetection again on the same state     *)
(* object. destroyBot removes the listeners of the old instance; the        *)
(* setInterval and the setTimeout calls of the old installPearlDetection    *)
(* are not cancelled, and their callbacks keep the old closure: the old     *)
(* entity-id index, the old save timer and the old bot with its entity      *)
(* table as it was when the connection ended.                               *)

Horizon == StartAt + MaxTicks * RESCAN_MS

\* the two installPearlDetection calls whose callbacks can run
Instances == {"current", "previous"}

Runs(who) == who = "previous" => prev.live

\* the closure of an instance: its index and timers, over the shared registry
StoreOf(who) ==
    IF who = "previous"
    THEN [Store EXCEPT !.idx = prev.idx, !.rescore = prev.rescore, !.save = prev.save]
    ELSE Store

\* bot.entities of the bot an instance was installed for
TableOf(who) == IF who = "previous" THEN prev.ents ELSE entities

TimersOf(who) ==
    IF who = "previous"
    THEN [tick |-> prev.nextTickAt, delayed |-> prev.delayedScanAt]
    ELSE [tick |-> nextTickAt, delayed |-> delayedScanAt]

\* what a callback of an instance leaves: the registry is the shared one, the index
\* and the timers are its own
CommitOf(who, S, tm) ==
    /\ pearls' = S.pearls
    /\ order' = S.order
    /\ IF who = "previous"
       THEN /\ prev' = [prev EXCEPT !.idx = S.idx, !.rescore = S.rescore, !.save = S.save,
                                    !.nextTickAt = tm.tick, !.delayedScanAt = tm.delayed]
            /\ UNCHANGED <<entityToKey, rescoreTimers, saveTimer, nextTickAt, delayedScanAt>>
       ELSE /\ entityToKey' = S.idx
            /\ rescoreTimers' = S.rescore
            /\ saveTimer' = S.save
            /\ nextTickAt' = tm.tick
            /\ delayedScanAt' = tm.delayed
            /\ prev' = prev

\* the entity table of the new bot when it has spawned: nothing announced yet
TablesAtSpawn == {<<>>}

\* the instants at which the new bot can have spawned
ReconnectAt == {StartAt + RESCAN_MS}

\* "spawn" of the bot that createAndBindBot made after the old one was destroyed;
\* left is the entity table the destroyed bot keeps (what the client library does
\* with it when the connection ends is outside this repository)
Reconnect(ents, left) ==
    /\ ~prev.live
    /\ now \in ReconnectAt
    /\ prev' = [live |-> TRUE, idx |-> entityToKey, ents |-> left,
                rescore |-> rescoreTimers, save |-> saveTimer,
                delayedScanAt |-> delayedScanAt, nextTickAt |-> nextTickAt]
    /\ LET S0 == [pearls |-> pearls, order |-> order, idx |-> rebuildIndex(pearls, order),
                  rescore |-> {}, save |-> 0, sent |-> <<>>]
           S  == scanLoadedPearls(S0, ents, "startup", now)
       IN  /\ Commit(S)
           /\ hist' = HistAfter(S.pearls, {},
                                {e \in EntityIds : (e \in DOMAIN entities) # (e \in DOMAIN ents)
                                    \/ (e \in DOMAIN ents /\ entities[e] # ents[e])},
                                DOMAIN ents)
    /\ entities' = ents
    /\ lastSwing' = [i \in PlayerEntityIds |-> 0]
    /\ delayedScanAt' = now + DELAYED_SCAN_MS
    /\ nextTickAt' = now + RESCAN_MS
    /\ UNCHANGED <<now, trig, busy, ctrl, botPos, events, general, disk>>

\* the reconciliation interval of an instance fires
IntervalOf(who) ==
    /\ Runs(who)
    /\ now >= TimersOf(who).tick
    /\ LET S == onInterval(StoreOf(who), TableOf(who), now)
       IN  /\ CommitOf(who, S, [TimersOf(who) EXCEPT !.tick = @ + RESCAN_MS])
           /\ hist' = [HistAfter(S.pearls, {}, {}, {}) EXCEPT
                      !.whispers = IF who = "current"
                                   THEN hist.whispers \o Whispered(S, "tick")
                                   ELSE hist.whispers,
                      !.snap = IF who = "current" THEN SnapAfter ELSE hist.snap,
                      !.reaped = hist.reaped \cup (DOMAIN pearls \ DOMAIN S.pearls)]
    /\ UNCHANGED <<now, entities, lastSwing, trig, busy, ctrl, botPos, events, general,
                   disk>>

\* a re-attribution timer of an instance fires
RescoreOf(who) ==
    /\ Runs(who)
    /\ \E tm \in StoreOf(who).rescore :
         /\ now >= tm.at
         /\ LET S == onRescore([StoreOf(who) EXCEPT !.rescore = @ \ {tm}], tm.key, now)
            IN  /\ CommitOf(who, S, TimersOf(who))
                /\ hist' = HistAfter(S.pearls, {}, {}, {})
    /\ UNCHANGED <<now, entities, lastSwing, trig, busy, ctrl, botPos, events, general,
                   disk>>

\* the one-shot delayed startup scan of an instance fires
DelayedScanOf(who) ==
    /\ Runs(who)
    /\ TimersOf(who).delayed # 0
    /\ now >= TimersOf(who).delayed
    /\ LET S == scanLoadedPearls(StoreOf(who), TableOf(who), "delayed", now)
       IN  /\ CommitOf(who, S, [TimersOf(who) EXCEPT !.delayed = 0])
           /\ hist' = HistAfter(S.pearls, {}, {},
                                IF who = "current" THEN DOMAIN entities ELSE {})
    /\ UNCHANGED <<now, entities, lastSwing, trig, busy, ctrl, botPos, events, general,
                   disk>>

\* the debounced save of an instance fires: saveState(state)
SaveOf(who) ==
    /\ Runs(who)
    /\ StoreOf(who).save # 0
    /\ now >= StoreOf(who).save
    /\ CommitOf(who, [StoreOf(who) EXCEPT !.save = 0], TimersOf(who))
    /\ UNCHANGED <<now, entities, lastSwing, trig, busy, ctrl, botPos, events, general,
                   disk, hist>>

PrevTimerDue ==
    /\ prev.live
    /\ \/ now >= prev.nextTickAt
       \/ prev.save # 0 /\ now >= prev.save
       \/ prev.delayedScanAt # 0 /\ now >= prev.delayedScanAt
       \/ \E tm \in prev.rescore : now >= tm.at

\* time passes to the next instant at which something can be due
AdvanceReconnect ==
    /\ ~PrevTimerDue
    /\ AdvanceIn({t \in Instants \cup {nextTickAt, delayedScanAt, prev.nextTickAt,
                                       prev.delayedScanAt} : t <= Horizon})

ReconnectNext ==
    \/ \E e \in EntityIds : \E p \in PositionsOf(e) : EntitySpawn(e, p)
    \/ \E e \in EntityIds : EntityGone(e)
    \/ \E ents \in TablesAtSpawn : \E left \in {entities, <<>>} : Reconnect(ents, left)
    \/ \E who \in Instances : IntervalOf(who)
    \/ \E who \in Instances : RescoreOf(who)
    \/ \E who \in Instances : DelayedScanOf(who)
    \/ \E who \in Instances : SaveOf(who)
    \/ AdvanceReconnect

\* the process starts with a chamber pearl on record and loaded, or with a pearl in
\* flight and nothing on record
InitReconnect ==
    /\ \E scene \in {sc \in InitScenes : sc.ents # <<>>} : InitFrom(scene)
    /\ botPos = BotHome

\* variant 1 of the pearl detection, from process start, with one reconnect
SpecReconnect == InitReconnect /\ [][ReconnectNext]_vars

----------------------------------------------------------------------------
(* Properties settled last *)

\* the block that holds position p
BlockOf(p) == Vec(FloorC(p.x) \div 100, FloorC(p.y) \div 100, FloorC(p.z) \div 100)

\* the action blocks of the world in the cube of the given radius around block base
ActionBlocksInCube(base, radius) ==
    {b \in DOMAIN WorldBlocks :
        /\ isActionBlockName(WorldBlocks[b])
        /\ b.x - base.x \in -radius..radius
        /\ b.y - base.y \in -radius..radius
        /\ b.z - base.z \in -radius..radius}

BlockDistSq(a, b) ==
    (a.x - b.x) * (a.x - b.x) + (a.y - b.y) * (a.y - b.y) + (a.z - b.z) * (a.z - b.z)

\* C31: the search of a call that has picked a record ends without a block exactly
\* when no action block lies in the cube of ACTION_RADIUS around the block that holds
\* the record's position; otherwise it returns an action block of that cube, and no
\* action block of the cube is nearer (by squared offset) to the centre
C31_NearestActionBlockInCube ==
    [][(trig.pc = "idle" /\ trig'.pc # "idle" /\ trig'.pearlId # <<>>) =>
          \A base \in {BlockOf(pearls[trig'.pearlId].pos)} :
              \A hits \in {ActionBlocksInCube(base, ACTION_RADIUS)} :
                  /\ (hits = {}) <=> (trig'.err = "NoActionBlock")
                  /\ (hits = {}) <=> (trig'.target = <<>>)
                  /\ hits # {} =>
                        /\ trig'.target[1] \in hits
                        /\ \A q \in hits :
                               BlockDistSq(trig'.target[1], base) <= BlockDistSq(q, base)]_vars

\* the call goes to one of two action blocks at the same distance, past a block that
\* is no action block at that distance, with a third action block further off
C31_Witness ==
    /\ trig.pc = "nav3d"
    /\ trig.pearlId \in DOMAIN pearls
    /\ BlockOf(pearls[trig.pearlId].pos) = Vec(41, 64, 0)
    /\ trig.target = <<Vec(40, 64, 0)>>
    /\ Cardinality(ActionBlocksInCube(Vec(41, 64, 0), ACTION_RADIUS)) = 4

\* the whispers sent in this step
NewWhispers == SubSeq(hist'.whispers, Len(hist.whispers) + 1, Len(hist'.whispers))

\* C32: whispers are only ever added; one is sent exactly for a record that becomes
\* stasis in this step and has a known owner, to that owner; no two whispers, from the
\* move handler or the interval, are ever about the same record
C32_OneWhisperPerPromotion ==
    [][ /\ Len(hist'.whispers) >= Len(hist.whispers)
        /\ SubSeq(hist'.whispers, 1, Len(hist.whispers)) = hist.whispers
        /\ \A i \in DOMAIN NewWhispers :
               /\ NewWhispers[i].key \in PromotedNow
               /\ NewWhispers[i].to = pearls'[NewWhispers[i].key].owner
               /\ NewWhispers[i].to # "unknown"
        /\ \A k \in PromotedNow :
               pearls'[k].owner # "unknown" =>
                   \E i \in DOMAIN NewWhispers : NewWhispers[i].key = k
        /\ \A i, j \in DOMAIN hist'.whispers :
               i # j => hist'.whispers[i].key # hist'.whispers[j].key ]_vars

\* alice has been told of a promotion
C32_Witness ==
    \E i \in DOMAIN hist.whispers :
        /\ hist.whispers[i].to = "alice"
        /\ hist.whispers[i].key \in DOMAIN pearls
        /\ pearls[hist.whispers[i].key].status = "stasis"

\* C33: a record is promoted only on a stability timer started since the process
\* started, and deleted by the interval only on a missing timer started since then
C33_TimersStartAfterRestart ==
    [][ /\ \A k \in PromotedNow : pearls[k].stableSince >= StartAt
        /\ \A k \in hist'.reaped \ hist.reaped : pearls[k].missingSince >= StartAt ]_vars

\* the records that a scan (startup, delayed or rescan) registered
ScanKeys(ps) == {k \in DOMAIN ps : k[1] = "pre"}

\* C34: a record that a scan registered has owner "unknown" for as long as it exists,
\* whatever spawn events arrive for its entity; no re-attribution timer is ever set
\* for it; and the owner of a record changes only when such a timer fires
C34_ScannedStaysUnknown ==
    [][ /\ \A k \in ScanKeys(pearls') : pearls'[k].owner = "unknown"
        /\ \A tm \in rescoreTimers' : tm.key[1] # "pre"
        /\ \A k \in DOMAIN pearls \cap DOMAIN pearls' :
               pearls'[k].owner # pearls[k].owner => (RescoreFire /\ k[1] # "pre") ]_vars

\* a scan registered pearl 1 and a spawn event for it has moved the record without any
\* move event, to where the scorer now finds a thrower
C34_Witness ==
    \E k \in ScanKeys(pearls) :
        /\ pearls[k].entityId = 1
        /\ pearls[k].pos = PFly
        /\ k \in hist.noMove
        /\ pickOwnerForPearl(pearls[k].pos, now) # "unknown"

\* C35: a call of triggerPearl that has started comes to its return or its rethrow,
\* with the flag cleared, whichever way its approaches end; and whenever no call is
\* in flight the flag is clear
C35_CallEndsAndClearsFlag ==
    /\ [](trig.pc \in {"idle", "done", "failed"} => ~busy)
    /\ (trig.pc \notin {"idle", "done", "failed"}) ~> (trig.pc \in {"done", "failed"} /\ ~busy)

\* a call has returned after both of its approaches had failed
C35_Witness ==
    /\ trig.pc = "done"
    /\ ~busy
    /\ \E i \in DOMAIN trig.log : trig.log[i] = "gotoNearXZ"
    /\ \E i \in DOMAIN trig.log : trig.log[i] = "waitForTicks" /\ i > 1 /\ trig.log[i - 1] = "reset"

\* C36: once installPearlDetection has been installed again for a new bot instance,
\* no callback of the previous instance (its interval, its timers) creates,
\* refreshes or deletes a record
C36_PreviousInstanceIsInert ==
    [][prev.live /\ prev' # prev => pearls' = pearls /\ order' = order]_vars

====
